---- MODULE Spec2Model ----
(***************************************************************************)
(* A model of smsh (src/main.c): the line parser parse_commands, modelled  *)
(* character by character through strtok_r, and the interactive loop of    *)
(* main with its builtins, its child processes, their pipes and            *)
(* descriptors, and its SIGINT handler.                                    *)
(*                                                                         *)
(* Specifications:                                                         *)
(*   SpecParse  every line up to MaxLineLen characters is parsed once;     *)
(*   SpecTime   the elapsed time of main.c:125 over sampled timestamps;    *)
(*   Spec       the shell: prompt cycles, forks, pipes, waits, signals,    *)
(*              failing system calls and SIGINT;                           *)
(*   SpecFail   pipelines with failing system calls of the shell process   *)
(*              and no SIGINT;                                             *)
(*   SpecQuiet  the shell with neither;                                    *)
(*   SpecLive   the shell with neither, under the scheduler's fairness;    *)
(*   SpecCd     the cd builtin from every working directory;               *)
(*   SpecEnv    the checkEnv builtin with every argument list;             *)
(*   SpecPager  a pager stage on machines with and without PAGER, less;    *)
(*   SpecGroup  the process-group variant (src/unnamed/part_003) with its  *)
(*              SIGTERM handler;                                           *)
(*   SpecDet    the SIGDET build: the SIGCHLD handler and its siglongjmp;  *)
(*   SpecCoord  the process exec() forks in the process-group variant to   *)
(*              run a pipeline, with the stages as its children.           *)
(*                                                                         *)
(* The heap variable follows malloc and free of the CommandList, its       *)
(* array, its Commands and their argument arrays in the shell process.     *)
(***************************************************************************)
EXTENDS Integers, Sequences, FiniteSets, TLC

VARIABLES
    input,        \* the line handed to parse_commands (a sequence of characters)
    parsed,       \* [done, res]: the value parse_commands returned for input
    pc,           \* position of the shell process in main
    pid,          \* static pid_t pid
    fg_process,   \* static bool fg_process
    procs,        \* the children forked so far, by pid
    sigint_held,  \* SIGINT is held by sighold (main.c:67 .. 106)
    sigchld_held, \* SIGCHLD is held by sighold (main.c:112 .. 123)
    hpc,          \* position of signal_handler: "none" or "waitpid" (main.c:489)
    status,       \* int status of the foreground block (main.c:109)
    commands,     \* the CommandList exec_commands works on
    cmd_index,    \* exec_commands' cmd_index of the recursion level being run
    fd_in,        \* exec_commands' fd_in of the recursion level being run
    ret_val,      \* the value exec_cmd or exec_commands last returned to main
    fds,          \* the descriptor table of the shell process
    npipes,       \* the pipes created so far
    cwd,          \* the working directory of the shell process
    machine,      \* the environment: PAGER, and the programs execvp does not find
    heap,         \* what the line being run has allocated in the shell process
    cycle,        \* number of lines read so far; a job is named by the cycle that launched it
    clock,        \* struct timeval before, after and uint64_t time_taken (main.c:37, 110)
    log           \* observations: what the shell printed, signalled and waited for

parseVars == <<input, parsed>>

jobVars == <<pid, fg_process>>

maskVars == <<sigint_held, sigchld_held>>

frameVars == <<commands, cmd_index, fd_in, ret_val>>

kernelVars == <<fds, npipes, cwd, machine, heap>>

vars == <<input, parsed, pc, pid, fg_process, procs, sigint_held, sigchld_held,
          hpc, status, commands, cmd_index, fd_in, ret_val, fds, npipes, cwd,
          machine, heap, cycle, clock, log>>

shellVars == <<pc, pid, fg_process, procs, sigint_held, sigchld_held,
               hpc, status, commands, cmd_index, fd_in, ret_val, fds, npipes,
               cwd, machine, heap, cycle, log>>

\* ------------------------------------------------------------------ bounds

MaxLineLen == 5

MaxCycles == 2

MaxFailCycles == 1

MaxLiveCycles == 1

MaxProcs == 3

\* System calls (fork, pipe) that may fail in one run.
MaxFailures == 1

\* SIGINTs delivered to the shell in one run.
MaxSigints == 1

\* ------------------------------------------------------------- characters

SPACE == " "

PIPE == "|"

AMP == "&"

\* The characters lines are drawn from in SpecParse.
Chars == {"a", "b", SPACE, PIPE, AMP}

RECURSIVE StringsUpTo(_)
StringsUpTo(n) ==
    IF n = 0 THEN {<< >>}
    ELSE LET shorter == StringsUpTo(n - 1)
         IN  shorter \cup {Append(s, c) : s \in {t \in shorter : Len(t) = n - 1}, c \in Chars}

\* ---------------------------------------------------------------- strtok_r
\* A C string is a sequence of characters; position Len(s)+1 is its NUL.

\* str += strspn(str, delim): the first position at or after p not holding delim.
RECURSIVE strspn(_, _, _)
strspn(s, p, delim) ==
    IF p <= Len(s) /\ s[p] = delim THEN strspn(s, p + 1, delim) ELSE p

\* str + strcspn(str, delim): the first position at or after p holding delim or NUL.
RECURSIVE strcspn(_, _, _)
strcspn(s, p, delim) ==
    IF p <= Len(s) /\ s[p] # delim THEN strcspn(s, p + 1, delim) ELSE p

\* strtok_r continued from save pointer p: skips leading delimiters, returns the
\* token up to the next delimiter (which it overwrites with NUL) and the new
\* save pointer; found = FALSE is the NULL return.
strtok_r(s, p, delim) ==
    LET b == strspn(s, p, delim)
        e == strcspn(s, b, delim)
    IN  IF b > Len(s)
        THEN [found |-> FALSE, tok |-> << >>, save |-> b]
        ELSE [found |-> TRUE, tok |-> SubSeq(s, b, e - 1),
              save |-> IF e > Len(s) THEN e ELSE e + 1]

\* ---------------------------------------------------------- parse_commands

\* A Command: args is the array up to (not including) its NULL terminator, so
\* args[0] of the C code is NULL exactly when num_args = 0. A fresh Command
\* (main.c:153-162) has num_args = 0 and a zeroed array.
NewCommand == [num_args |-> 0, args |-> << >>]

\* command->args[command->num_args++] = arg_str; command->args[num_args] = NULL.
AddArg(command, arg_str) ==
    [num_args |-> command.num_args + 1,
     args |-> [i \in 1..(command.num_args + 1) |->
                  IF i <= command.num_args THEN command.args[i] ELSE arg_str]]

\* The variant of the inner loop that stores `&` as an argument too.
RECURSIVE ArgLoopKeepsAmp(_, _, _, _)
ArgLoopKeepsAmp(cmd_str, save, command, bg) ==
    LET t == strtok_r(cmd_str, save, SPACE)
    IN  IF ~t.found THEN [error |-> FALSE, command |-> command, bg |-> bg]
        ELSE IF bg THEN [error |-> TRUE, command |-> command, bg |-> bg]
        ELSE IF t.tok = <<AMP>>
             THEN ArgLoopKeepsAmp(cmd_str, t.save, AddArg(command, t.tok), TRUE)
             ELSE ArgLoopKeepsAmp(cmd_str, t.save, AddArg(command, t.tok), bg)

\* The inner loop of parse_commands (while (NULL != arg_str)): the tokens of one
\* stage. error is the `return NULL` taken when a token follows a `&`.
RECURSIVE ArgLoop(_, _, _, _)
ArgLoop(cmd_str, save, command, bg) ==
    LET t == strtok_r(cmd_str, save, SPACE)
    IN  IF ~t.found THEN [error |-> FALSE, command |-> command, bg |-> bg]
        ELSE IF bg THEN [error |-> TRUE, command |-> command, bg |-> bg]
        ELSE IF t.tok = <<AMP>>
             THEN ArgLoop(cmd_str, t.save, command, TRUE)
             ELSE ArgLoop(cmd_str, t.save, AddArg(command, t.tok), bg)

\* The outer loop of parse_commands (while (NULL != cmd_str)): one Command per
\* `|`-separated token of the line, appended whatever its number of arguments.
RECURSIVE CmdLoop(_, _, _, _)
CmdLoop(line, save, cmds, bg) ==
    LET c == strtok_r(line, save, PIPE)
    IN  IF ~c.found THEN [null |-> FALSE, bg |-> bg, length |-> Len(cmds), cmds |-> cmds]
        ELSE LET a == ArgLoop(c.tok, 1, NewCommand, bg)
             IN  IF a.error
                 THEN [null |-> TRUE, bg |-> FALSE, length |-> 0, cmds |-> << >>]
                 ELSE CmdLoop(line, c.save, Append(cmds, a.command), a.bg)

\* CommandList *parse_commands(char *input); null = TRUE is the NULL return.
parse_commands(line) == CmdLoop(line, 1, << >>, FALSE)

NotParsed == [done |-> FALSE, res |-> [null |-> TRUE, bg |-> FALSE, length |-> 0, cmds |-> << >>]]

\* ------------------------------------------------------------- allocations
\* The heap of the shell process as far as one line goes: the objects allocated
\* for the line and not freed (live), and those handed to free() once more after
\* they were freed (twice). The objects of a line are named afresh for every
\* line read.
NoHeap == [live |-> {}, twice |-> {}]

\* The CommandList of parse_commands (main.c:139) and its stage array
\* (main.c:149), Command i (main.c:153) and its argument array (main.c:162).
LIST == <<"list", 0>>

CMDS == <<"cmds", 0>>

CMD(i) == <<"cmd", i>>

ARGS(i) == <<"args", i>>

\* checkEnv_cmd's command_list (main.c:419), its stage array (main.c:423), and
\* its Commands and their argument arrays (main.c:402-404, 431-436).
ENV_LIST == <<"env_list", 0>>

ENV_CMDS == <<"env_cmds", 0>>

ENV_CMD(i) == <<"env_cmd", i>>

ENV_ARGS(i) == <<"env_args", i>>

\* malloc, calloc: the objects of the set become live.
malloc(h, objs) == [h EXCEPT !.live = @ \cup objs]

\* free(o): a live object is released; any other was freed before.
free(h, o) ==
    IF o \in h.live THEN [h EXCEPT !.live = @ \ {o}]
    ELSE [h EXCEPT !.twice = @ \cup {o}]

\* The calls free(objs[1]), free(objs[2]), ... in this order.
RECURSIVE FreeSeq(_, _)
FreeSeq(h, objs) ==
    IF objs = << >> THEN h ELSE FreeSeq(free(h, Head(objs)), Tail(objs))

\* for (i = 0; i < n; i++) { free(cmds[i]->args); free(cmds[i]); }
\* (main.c:168-171, 292-295).
RECURSIVE FreeCommands(_, _, _)
FreeCommands(h, i, n) ==
    IF i > n THEN h
    ELSE FreeCommands(FreeSeq(h, <<ARGS(i), CMD(i)>>), i + 1, n)

\* The heap side of CmdLoop: n Commands are complete; the Command of the next
\* stage and its argument array are allocated (main.c:153, 162); when a token
\* follows `&` the complete Commands, the stage array and the list are freed
\* (main.c:168-173) and parse_commands returns.
RECURSIVE CmdLoopHeap(_, _, _, _, _)
CmdLoopHeap(line, save, n, bg, h) ==
    LET c == strtok_r(line, save, PIPE)
    IN  IF ~c.found THEN h
        ELSE LET a  == ArgLoop(c.tok, 1, NewCommand, bg)
                 h1 == malloc(h, {CMD(n + 1), ARGS(n + 1)})
             IN  IF a.error
                 THEN FreeSeq(FreeCommands(h1, 1, n), <<CMDS, LIST>>)
                 ELSE CmdLoopHeap(line, c.save, n + 1, a.bg, h1)

\* What parse_commands(line) leaves on the heap.
parse_heap(line) == CmdLoopHeap(line, 1, 0, FALSE, malloc(NoHeap, {LIST, CMDS}))

\* ------------------------------------------------------------ descriptors
\* A descriptor table is a sequence: descriptor n is entry n + 1. An entry is
\* the terminal, a closed slot, or one end of pipe number k.

STDIN_FILENO == 0

STDOUT_FILENO == 1

PIPE_READ_SIDE == 0

PIPE_WRITE_SIDE == 1

TTY == [pipe |-> 0, side |-> "tty"]

CLOSED == [pipe |-> 0, side |-> "closed"]

PipeEnd(k, side) == [pipe |-> k, side |-> side]

\* The table a process starts with: stdin, stdout and stderr on the terminal.
StdFds == <<TTY, TTY, TTY>>

\* A table without closed slots at its end.
RECURSIVE Trim(_)
Trim(t) ==
    IF Len(t) > 0 /\ t[Len(t)] = CLOSED THEN Trim(SubSeq(t, 1, Len(t) - 1)) ELSE t

\* The lowest descriptor not open in t: the one open(), pipe() and dup() hand out.
LowestFree(t) ==
    IF \E i \in 1..Len(t) : t[i] = CLOSED
    THEN (CHOOSE i \in 1..Len(t) : t[i] = CLOSED /\ \A j \in 1..(i - 1) : t[j] # CLOSED) - 1
    ELSE Len(t)

Install(t, fd, d) == IF fd < Len(t) THEN [t EXCEPT ![fd + 1] = d] ELSE Append(t, d)

\* pipe(pipefd) creating pipe k: the read end takes the lowest free descriptor,
\* the write end the next one.
pipe(t, k) ==
    LET r  == LowestFree(t)
        t1 == Install(t, r, PipeEnd(k, "r"))
        w  == LowestFree(t1)
    IN  [fds |-> Install(t1, w, PipeEnd(k, "w")), pipefd |-> <<r, w>>]

\* close(fd) leaving the descriptor open.
closeNothing(t, fd) == t

\* close(fd).
close(t, fd) == Trim([t EXCEPT ![fd + 1] = CLOSED])

\* dup2(oldfd, newfd) for newfd one of the standard descriptors.
dup2(t, oldfd, newfd) == [t EXCEPT ![newfd + 1] = t[oldfd + 1]]

\* The descriptors of table t that are an end of some pipe.
PipeFds(t) == {fd \in 0..(Len(t) - 1) : t[fd + 1].pipe # 0}

\* One redirection step of a child: dup2(a, b) or close(a).
Dup2Op(a, b) == [op |-> "dup2", a |-> a, b |-> b]

CloseOp(a) == [op |-> "close", a |-> a, b |-> a]

\* Table t after the first n steps of ops.
RECURSIVE RunOps(_, _, _)
RunOps(t, ops, n) ==
    IF n = 0 THEN t
    ELSE LET o == ops[n]
             u == RunOps(t, ops, n - 1)
         IN  IF o.op = "dup2" THEN dup2(u, o.a, o.b) ELSE close(u, o.a)

\* InnerOps with the close of the pipe's read end left out.
InnerOpsKeepRead(in, pipefd) ==
    (IF in # STDIN_FILENO THEN <<Dup2Op(in, STDIN_FILENO), CloseOp(in)>> ELSE << >>)
    \o <<Dup2Op(pipefd[PIPE_WRITE_SIDE + 1], STDOUT_FILENO),
         CloseOp(pipefd[PIPE_WRITE_SIDE + 1])>>

\* main.c:305-316: the redirections of the child of a non-final stage.
InnerOps(in, pipefd) ==
    (IF in # STDIN_FILENO THEN <<Dup2Op(in, STDIN_FILENO), CloseOp(in)>> ELSE << >>)
    \o <<Dup2Op(pipefd[PIPE_WRITE_SIDE + 1], STDOUT_FILENO),
         CloseOp(pipefd[PIPE_WRITE_SIDE + 1]),
         CloseOp(pipefd[PIPE_READ_SIDE + 1])>>

\* main.c:258-262: the redirections of the child of the final stage.
FinalOps(in) == <<Dup2Op(in, STDIN_FILENO), CloseOp(in)>>

\* ------------------------------------------------------------ elapsed time

MaxSec == 2

\* The microsecond fields sampled: the ends of 0..999999 and the values around
\* a whole millisecond.
USecs == {0, 1, 999, 1000, 1001, 999000, 999999}

Stamps == [tv_sec : 0..MaxSec, tv_usec : USecs]

NoClock == [before |-> [tv_sec |-> 0, tv_usec |-> 0],
            after |-> [tv_sec |-> 0, tv_usec |-> 0],
            time_taken |-> [set |-> FALSE, wrapped |-> FALSE, value |-> 0]]

\* C's integer division: the quotient truncated towards zero.
CDiv(a, b) == IF a >= 0 THEN a \div b ELSE -((-a) \div b)

\* The sum of main.c:125-126 without the division of the microseconds.
ElapsedNoDiv(before, after) ==
    1000 * (after.tv_sec - before.tv_sec) + (after.tv_usec - before.tv_usec)

\* main.c:125-126: 1000 * (after.tv_sec - before.tv_sec) +
\* (after.tv_usec - before.tv_usec) / 1000, in signed arithmetic.
Elapsed(before, after) ==
    1000 * (after.tv_sec - before.tv_sec)
        + CDiv(after.tv_usec - before.tv_usec, 1000)

\* The cast (uint64_t) of main.c:125: a non-negative value is kept; a negative
\* one v becomes 2^64 + v, recorded as wrapped with the signed value beside it.
ToUint64(v) == [set |-> TRUE, wrapped |-> v < 0, value |-> v]

\* -------------------------------------------------------------- environment

X_S == <<"x">>

CD_S == <<"c", "d">>

\* getenv("PAGER") returning NULL.
NoPager == [set |-> FALSE, value |-> << >>]

\* The machine the shell runs on unless said otherwise: every program named is
\* found by execvp except x and cd, and PAGER is not set.
TheMachine == [PAGER |-> NoPager, missing |-> {X_S, CD_S}]

\* ------------------------------------------------------- working directory
\* A path is a C string. The machine modelled has the directories /, /h and
\* /h/d, and HOME is /h.

SLASH == "/"

TILDE == "~"

ROOT == <<SLASH>>

\* getenv("HOME").
HOME == <<SLASH, "h">>

Dirs == {ROOT, HOME, HOME \o <<SLASH, "d">>}

\* A path without its trailing slashes.
RECURSIVE Norm(_)
Norm(path) ==
    IF Len(path) > 1 /\ path[Len(path)] = SLASH
    THEN Norm(SubSeq(path, 1, Len(path) - 1))
    ELSE path

\* The directory a non-empty path names to a process whose working directory
\* is wd: itself if absolute, else below wd.
Resolve(wd, path) ==
    Norm(IF path[1] = SLASH THEN path
         ELSE IF wd = ROOT THEN wd \o path
         ELSE wd \o <<SLASH>> \o path)

\* chdir(path) in a process whose working directory is wd.
chdir(wd, path) ==
    IF path # << >> /\ Resolve(wd, path) \in Dirs
    THEN [ret |-> 0, cwd |-> Resolve(wd, path)]
    ELSE [ret |-> -1, cwd |-> wd]

\* static int cd(const char *dir) (main.c:353-361): chdir, perror on failure,
\* EXIT_FAILURE either way.
cd(wd, dir) ==
    LET r == chdir(wd, dir)
    IN  [ret_val |-> "EXIT_FAILURE", cwd |-> r.cwd,
         msg |-> IF r.ret # 0 THEN "chdir" ELSE "none"]

\* cd_cmd taking its argument literally, `~` or not.
cd_cmd_literal(wd, args) ==
    IF Len(args) = 1 THEN cd(wd, HOME)
    ELSE IF Len(args) > 2
    THEN [ret_val |-> "EXIT_FAILURE", cwd |-> wd, msg |-> "usage"]
    ELSE cd(wd, args[2])

\* int cd_cmd(char **args) (main.c:364-397): no argument: HOME; two or more:
\* the usage message; one: the argument, HOME taking the place of a leading `~`.
cd_cmd(wd, args) ==
    IF Len(args) = 1 THEN cd(wd, HOME)
    ELSE IF Len(args) > 2
    THEN [ret_val |-> "EXIT_FAILURE", cwd |-> wd, msg |-> "usage"]
    ELSE LET tmp == args[2]
         IN  IF tmp[1] = TILDE THEN cd(wd, HOME \o Tail(tmp)) ELSE cd(wd, tmp)

\* ------------------------------------------------------------ SpecParse

\* Nothing observed yet. reported lists the pids printed as "<pid> done" so
\* far; the other fields are about the current cycle (since the last line was
\* read): the pids signal_handler signalled, the pids the foreground wait was
\* issued on, the elapsed times and the errors printed, whether the handler
\* unwound (interrupted) and whether it did so after signalling a job
\* (unwound), and pid, fg_process and the number of pipes as they were when the
\* line was read, and the system call of the shell process that failed. linesLeft,
\* failsLeft and sigsLeft are the lines, the failing system calls and the SIGINTs
\* the run may still see; childFails tells whether a system call of a child may
\* be among the failing ones; procsMax is the number of children the run may
\* fork in all; exit is the status the process passed to exit().
NoLog ==
    [reported |-> << >>, killed |-> {}, waited |-> {}, timed |-> 0,
     unwound |-> FALSE, interrupted |-> FALSE, errors |-> 0,
     failed |-> "none", atRead |-> [pid |-> -1, fg |-> FALSE, npipes |-> 0, cwd |-> << >>],
     linesLeft |-> 0, failsLeft |-> 0, sigsLeft |-> 0, childFails |-> FALSE,
     procsMax |-> MaxProcs, exit |-> "none"]

NoCommands == [length |-> 0, cmds |-> << >>, bg |-> FALSE]

\* The shell at the start of main: static pid_t pid = -1, static bool
\* fg_process = false, no child, no signal held, the standard descriptors,
\* nothing printed.
InitShell ==
    /\ pid = -1
    /\ fg_process = FALSE
    /\ procs = << >>
    /\ sigint_held = FALSE
    /\ sigchld_held = FALSE
    /\ hpc = "none"
    /\ status = "uninit"
    /\ commands = NoCommands
    /\ cmd_index = 0
    /\ fd_in = STDIN_FILENO
    /\ ret_val = "none"
    /\ fds = StdFds
    /\ npipes = 0
    /\ cwd = HOME
    /\ machine = TheMachine
    /\ heap = NoHeap
    /\ cycle = 0
    /\ log = [NoLog EXCEPT !.linesLeft = MaxCycles, !.failsLeft = MaxFailures,
                           !.sigsLeft = MaxSigints, !.childFails = TRUE]

\* Every line of at most MaxLineLen characters, not yet parsed.
InitParse ==
    /\ input \in StringsUpTo(MaxLineLen)
    /\ parsed = NotParsed
    /\ pc = "parse"
    /\ clock = NoClock
    /\ InitShell

\* commands = parse_commands(input) (main.c:79).
ParseLine ==
    /\ pc = "parse"
    /\ ~parsed.done
    /\ parsed' = [done |-> TRUE, res |-> parse_commands(input)]
    /\ UNCHANGED <<input, shellVars, clock>>

NextParse == ParseLine

SpecParse == InitParse /\ [][NextParse]_vars

\* ------------------------------------------------------------- SpecTime

\* Every pair of sampled timestamps, the elapsed time not yet computed.
InitTime ==
    /\ input = << >>
    /\ parsed = NotParsed
    /\ pc = "clock"
    /\ clock \in [before : Stamps, after : Stamps, time_taken : {NoClock.time_taken}]
    /\ InitShell

\* main.c:125-126: time_taken = (uint64_t) (...).
TimeTaken ==
    /\ pc = "clock"
    /\ ~clock.time_taken.set
    /\ clock' = [clock EXCEPT !.time_taken = ToUint64(Elapsed(clock.before, clock.after))]
    /\ UNCHANGED <<input, parsed, shellVars>>

NextTime == TimeTaken

SpecTime == InitTime /\ [][NextTime]_vars

\* ------------------------------------------------------------------ shell
\* The shell process of src/main.c (the build without SIGDET: only SIGINT
\* has a handler). pids are 1, 2, ... in fork order and are not reused.

EXIT_S == <<"e", "x", "i", "t">>

CHECKENV_S == <<"c", "h", "e", "c", "k", "E", "n", "v">>

printenv_s == <<"p", "r", "i", "n", "t", "e", "n", "v">>

sort_s == <<"s", "o", "r", "t">>

pager_s == <<"p", "a", "g", "e", "r">>

grep_s == <<"g", "r", "e", "p">>

LESS_S == <<"l", "e", "s", "s">>

MORE_S == <<"m", "o", "r", "e">>

\* The programs execvp does not find.
Missing == machine.missing

\* The lines typed at the prompt: empty, one stage, one stage in the background,
\* two stages, two stages in the background, the builtins cd, exit and checkEnv,
\* a line of one space, a misplaced `&`, a program that is not found, and a
\* builtin's name as a stage of a pipeline.
ShellLines ==
    { << >>,
      <<"a">>,
      <<"a", SPACE, AMP>>,
      <<"a", PIPE, "b">>,
      <<"a", PIPE, "b", SPACE, AMP>>,
      CD_S,
      EXIT_S,
      CHECKENV_S,
      <<SPACE>>,
      <<AMP, SPACE, "a">>,
      X_S,
      CD_S \o <<PIPE, "a">> }

\* builtins[] (main.h): exit, cd, checkEnv.
builtins == <<EXIT_S, CD_S, CHECKENV_S>>

IsBuiltin(command) ==
    command.num_args > 0 /\ \E i \in 1..Len(builtins) : command.args[1] = builtins[i]

\* CREATE_COMMAND(cmd) (main.c:401-406): one argument, the command's name.
CREATE_COMMAND(cmd_s) == [num_args |-> 1, args |-> <<cmd_s>>]

\* The stages of checkEnv's list at most (main.c:424).
EnvStages == 4

\* command_list with a grep that is not given the user's arguments.
command_list_bare_grep(args) ==
    LET cmds == <<CREATE_COMMAND(printenv_s)>>
                \o (IF Len(args) >= 2 THEN <<CREATE_COMMAND(grep_s)>> ELSE << >>)
                \o <<CREATE_COMMAND(sort_s), CREATE_COMMAND(pager_s)>>
    IN  [length |-> Len(cmds), cmds |-> cmds, bg |-> FALSE]

\* checkEnv_cmd (main.c:419-445): the CommandList printenv | sort | pager, with
\* grep and the user's arguments after printenv when an argument was given.
command_list(args) ==
    LET grep == [num_args |-> Len(args), args |-> <<grep_s>> \o Tail(args)]
        cmds == <<CREATE_COMMAND(printenv_s)>>
                \o (IF Len(args) >= 2 THEN <<grep>> ELSE << >>)
                \o <<CREATE_COMMAND(sort_s), CREATE_COMMAND(pager_s)>>
    IN  [length |-> Len(cmds), cmds |-> cmds, bg |-> FALSE]

\* The forks a parsed line asks of the shell process.
ForksNeeded(res) ==
    IF res.null \/ res.length = 0 THEN 0
    ELSE IF res.length > 1 THEN res.length
    ELSE IF res.cmds[1].num_args > 0 /\ res.cmds[1].args[1] = CHECKENV_S
         THEN command_list(res.cmds[1].args).length
    ELSE IF IsBuiltin(res.cmds[1]) THEN 0
    ELSE 1

Pids == 1..Len(procs)

\* The children not yet waited for.
Unreaped == {p \in Pids : procs[p].state # "reaped"}

\* The process group of the shell: no pid of a child.
ShellPgid == MaxProcs + EnvStages + 1

\* getpgid(p) of a child: every child is forked into the shell's own process
\* group and none leaves it.
getpgid(p) == ShellPgid

\* The children waitpid(target, ..) may return: one child for target > 0, any
\* child for target = -1 and for target = 0 (the caller's group), the children
\* of group g for target = -g.
WaitSet(target) ==
    {p \in Unreaped : target \in {-1, 0} \/ p = target \/ target = -getpgid(p)}

\* The states of a child that still runs: between fork and exec, in the program
\* it exec'd, or back in the code of the shell after a failed redirection.
Live == {"forked", "running", "stray"}

\* fork() succeeding in the shell: a new child for stage `stage` of the line of
\* this cycle, a copy of the shell (its image, its descriptor table `table`,
\* np pipes created so far, pipe0 of them before this line) that has the redirections ops and then the exec of
\* command still to do. via names the function that forked, last tells the
\* final stage of exec_commands, at where the child is in the code of the shell,
\* notified whether a SIGCHLD handled by the shell has covered its termination.
Spawn(stage, command, via, last, ops, table, np) ==
    Append(procs, [state |-> "forked", job |-> cycle, bg |-> parsed.res.bg,
                   pipe0 |-> log.atRead.npipes,
                   stage |-> stage, argv |-> command.args, via |-> via,
                   last |-> last, ops |-> ops, fds |-> table, npipes |-> np,
                   image |-> << >>, tried |-> << >>, execFailed |-> FALSE,
                   at |-> via, notified |-> FALSE,
                   status |-> "none", reapedBy |-> "none"])

\* waitpid collecting child p on behalf of `who`.
Reap(p, who) == [procs EXCEPT ![p].state = "reaped", ![p].reapedBy = who]

\* SIGTERM reaching every child of the set: one that runs is terminated by it.
Signal(targets) ==
    [p \in Pids |-> IF p \in targets /\ procs[p].state \in Live
                    THEN [procs[p] EXCEPT !.state = "dying"] ELSE procs[p]]

\* siglongjmp(prompt_mark, 1): back to the top of the loop with the signal mask
\* saved by sigsetjmp (main.c:30), which holds nothing.
LongJmp ==
    /\ pc' = "reap"
    /\ hpc' = "none"
    /\ sigint_held' = FALSE
    /\ sigchld_held' = FALSE

Init ==
    /\ input = << >>
    /\ parsed = NotParsed
    /\ pc = "start"
    /\ clock = NoClock
    /\ InitShell

\* The system call `call` of the shell failed: perror prints; one failure fewer
\* is left to this run.
Failed(call) == [log EXCEPT !.failsLeft = @ - 1, !.errors = @ + 1, !.failed = call]

\* main.c:17-30: TRY(sigaction(SIGINT, &sa, NULL), "sigaction") and sigsetjmp;
\* a failing sigaction makes main return EXIT_FAILURE.
Startup ==
    /\ pc = "start"
    /\ \/ /\ pc' = "reap"
          /\ UNCHANGED log
       \/ /\ log.failsLeft > 0
          /\ pc' = "returned"
          /\ log' = Failed("sigaction")
    /\ UNCHANGED <<parseVars, jobVars, procs, maskVars, hpc, status, frameVars,
                   kernelVars, cycle, clock>>

\* main.c:46-47: one turn of while (0 < (zombie = waitpid(0, NULL, WNOHANG)))
\* that finds a terminated child and prints "<pid> done".
ReapOne ==
    /\ pc = "reap" /\ hpc = "none"
    /\ \E p \in WaitSet(0) :
        /\ procs[p].state = "zombie"
        /\ procs' = Reap(p, "prompt")
        /\ log' = [log EXCEPT !.reported = Append(@, p)]
    /\ UNCHANGED <<parseVars, pc, jobVars, maskVars, hpc, status, frameVars,
                   kernelVars, cycle, clock>>

\* main.c:46-62: waitpid(0, NULL, WNOHANG) finds no terminated child; the prompt
\* is printed and the shell blocks in readline.
ReapDone ==
    /\ pc = "reap" /\ hpc = "none"
    /\ \A p \in WaitSet(0) : procs[p].state # "zombie"
    /\ pc' = "readline"
    /\ UNCHANGED <<parseVars, jobVars, procs, maskVars, hpc, status, frameVars,
                   kernelVars, cycle, clock, log>>

\* main.c:62-92: readline returns a line; sighold(SIGINT); parse_commands; on
\* NULL sigrelse and continue, on zero stages goto next, else
\* fg_process = !commands->bg.
ReadLine(line) ==
    /\ pc = "readline" /\ hpc = "none"
    /\ log.linesLeft > 0
    /\ LET res == parse_commands(line)
       IN  /\ Len(procs) + ForksNeeded(res) <= log.procsMax
           /\ input' = line
           /\ parsed' = [done |-> TRUE, res |-> res]
           /\ commands' = [length |-> res.length, cmds |-> res.cmds, bg |-> res.bg]
           /\ log' = [log EXCEPT !.linesLeft = @ - 1,
                                 !.killed = {}, !.waited = {}, !.timed = 0,
                                 !.unwound = FALSE, !.interrupted = FALSE,
                                 !.failed = "none",
                                 !.atRead = [pid |-> pid, fg |-> fg_process,
                                             npipes |-> npipes, cwd |-> cwd],
                                 !.errors = IF res.null THEN 1 ELSE 0]
           /\ IF res.null
              THEN /\ sigint_held' = FALSE
                   /\ pc' = "reap"
                   /\ UNCHANGED fg_process
              ELSE IF res.length = 0
              THEN /\ sigint_held' = TRUE
                   /\ pc' = "next"
                   /\ UNCHANGED fg_process
              ELSE /\ sigint_held' = TRUE
                   /\ fg_process' = ~res.bg
                   /\ pc' = IF res.length = 1 THEN "exec_cmd" ELSE "exec_commands"
    /\ heap' = parse_heap(line)
    /\ cycle' = cycle + 1
    /\ cmd_index' = 0
    /\ fd_in' = STDIN_FILENO
    /\ ret_val' = "none"
    /\ UNCHANGED <<pid, procs, sigchld_held, hpc, status, fds, npipes, cwd, machine,
                   clock>>

\* main.c:64 and 134: readline returns NULL (end of input); break; exit_cmd(NULL).
Eof ==
    /\ pc = "readline" /\ hpc = "none"
    /\ pc' = "exit_cmd"
    /\ UNCHANGED <<parseVars, jobVars, procs, maskVars, hpc, status, frameVars,
                   kernelVars, cycle, clock, log>>

\* Return with exec_commands trying the failed level again.
ReturnRetries(rv, clear) ==
    /\ ret_val' = rv
    /\ fg_process' = IF clear /\ rv # "EXIT_SUCCESS" THEN FALSE ELSE fg_process
    /\ pc' = IF rv = "EXIT_FAILURE" /\ pc = "exec_commands" THEN "exec_commands" ELSE "next"

\* exec_cmd or exec_commands returning rv to main: main.c:94-97 clears
\* fg_process on a value other than EXIT_SUCCESS of exec_cmd (clear), and
\* main.c:100 ignores the value of exec_commands.
Return(rv, clear) ==
    /\ ret_val' = rv
    /\ fg_process' = IF clear /\ rv # "EXIT_SUCCESS" THEN FALSE ELSE fg_process
    /\ pc' = "next"

\* main.c:93-97 with exec_cmd (main.c:216-240): the single stage is looked up
\* among the builtins, else forked; a non-zero return clears fg_process.
\* strcmp on args[0] = NULL is undefined: the shell faults, or the lookup finds
\* nothing and the child's execvp(NULL, ..) is undefined in turn. exit_cmd does
\* not return; cd_cmd changes the working directory or prints its error and
\* returns EXIT_FAILURE whatever chdir did (main.c:353-397);
\* checkEnv_cmd hands its command_list to exec_commands (main.c:447).
ExecCmd ==
    /\ pc = "exec_cmd" /\ hpc = "none"
    /\ LET command == parsed.res.cmds[1]
       IN  \/ /\ command.num_args = 0
              /\ pc' = "crashed"
              /\ UNCHANGED <<jobVars, procs, frameVars, cwd, machine, heap, log>>
           \/ /\ command.num_args > 0
              /\ command.args[1] = EXIT_S
              /\ pc' = "exit_cmd"
              /\ UNCHANGED <<jobVars, procs, frameVars, cwd, machine, heap, log>>
           \/ /\ command.num_args > 0
              /\ command.args[1] = CD_S
              /\ LET r == cd_cmd(cwd, command.args)
                 IN  /\ cwd' = r.cwd
                     /\ log' = IF r.msg = "none" THEN log
                               ELSE [log EXCEPT !.errors = @ + 1, !.failed = r.msg]
                     /\ Return(r.ret_val, TRUE)
              /\ heap' = FreeSeq(heap, <<ARGS(1), CMD(1)>>)
              /\ UNCHANGED <<pid, procs, commands, cmd_index, fd_in, machine>>
           \/ /\ command.num_args > 0
              /\ command.args[1] = CHECKENV_S
              /\ commands' = command_list(command.args)
              /\ cmd_index' = 0
              /\ fd_in' = STDIN_FILENO
              /\ pc' = "exec_commands"
              /\ heap' = malloc(heap, {ENV_LIST, ENV_CMDS}
                                      \cup {ENV_CMD(i) : i \in 1..commands'.length}
                                      \cup {ENV_ARGS(i) : i \in 1..commands'.length})
              /\ UNCHANGED <<jobVars, procs, ret_val, cwd, machine, log>>
           \/ /\ ~IsBuiltin(command)
              /\ procs' = Spawn(0, command, "exec_cmd", FALSE, << >>, fds, npipes)
              /\ pid' = Len(procs) + 1
              /\ Return("EXIT_SUCCESS", TRUE)
              /\ heap' = FreeSeq(heap, <<ARGS(1), CMD(1)>>)
              /\ UNCHANGED <<commands, cmd_index, fd_in, cwd, machine, log>>
           \/ /\ ~IsBuiltin(command)
              /\ log.failsLeft > 0
              /\ pid' = -1
              /\ log' = Failed("fork")
              /\ Return("EXIT_FAILURE", TRUE)
              /\ UNCHANGED <<procs, commands, cmd_index, fd_in, cwd, machine, heap>>
    /\ UNCHANGED <<parseVars, maskVars, hpc, status, fds, npipes, cycle, clock>>

\* exec_commands was called by checkEnv_cmd, whose value exec_cmd returns to
\* main.c:94: main itself calls it for two stages or more only.
FromCheckEnv == parsed.res.length = 1

\* The loop of main.c:292-295 in exec_commands over the list it was given: the
\* Commands of the line, or those of checkEnv's command_list.
RECURSIVE FreeStages(_, _, _)
FreeStages(h, i, n) ==
    IF i > n THEN h
    ELSE IF FromCheckEnv
         THEN FreeStages(FreeSeq(h, <<ENV_ARGS(i), ENV_CMD(i)>>), i + 1, n)
         ELSE FreeStages(FreeSeq(h, <<ARGS(i), CMD(i)>>), i + 1, n)

\* ReturnedTo with checkEnv_cmd freeing the Commands of its list as well.
ReturnedToFreesStages(h) ==
    IF FromCheckEnv
    THEN FreeSeq(FreeStages(h, 1, commands.length),
                 <<ENV_CMDS, ENV_LIST, ARGS(1), CMD(1)>>)
    ELSE h

\* What the caller of exec_commands frees once it has returned, whatever it
\* returned: checkEnv_cmd its stage array and its list (main.c:448-449) and then
\* exec_cmd the Command `checkEnv` (main.c:223-224); main (main.c:100) nothing.
ReturnedTo(h) ==
    IF FromCheckEnv THEN FreeSeq(h, <<ENV_CMDS, ENV_LIST, ARGS(1), CMD(1)>>) ELSE h

\* InnerChild with the fork before the pipe: the child has the shell's table
\* as it was before pipe().
InnerChildBeforePipe(command, p) ==
    Spawn(cmd_index, command, "exec_commands", FALSE, InnerOps(fd_in, p.pipefd),
          fds, npipes)

\* main.c:302-303: pipe(pipefd) and then fork() for a stage that is not the
\* last: the child is a copy of the shell holding both ends of the new pipe p.
InnerChild(command, p) ==
    Spawn(cmd_index, command, "exec_commands", FALSE, InnerOps(fd_in, p.pipefd),
          p.fds, npipes + 1)

\* What a failed close() leaves of table t: the descriptor is closed or not.
CloseFailed(t, fd) == {t, close(t, fd)}

\* One level of exec_commands (main.c:249-328) in the shell process. The last
\* stage forks, closes fd_in and returns; an earlier stage creates its pipe,
\* forks, closes the pipe's write end and fd_in, and recurses on the read end.
\* TRY returns EXIT_FAILURE from the failing call on.
ExecCommands ==
    /\ pc = "exec_commands" /\ hpc = "none"
    /\ LET command == commands.cmds[cmd_index + 1]
           new     == Len(procs) + 1
           p       == pipe(fds, npipes + 1)
           R       == p.pipefd[PIPE_READ_SIDE + 1]
           W       == p.pipefd[PIPE_WRITE_SIDE + 1]
           child   == InnerChild(command, p)
           t1      == close(p.fds, W)
           t2      == IF fd_in # STDIN_FILENO THEN close(t1, fd_in) ELSE t1
       IN  IF cmd_index = commands.length - 1
           THEN \/ /\ log.failsLeft > 0
                   /\ pid' = -1
                   /\ log' = Failed("fork")
                   /\ Return("EXIT_FAILURE", FromCheckEnv)
                   /\ heap' = ReturnedTo(heap)
                   /\ UNCHANGED <<procs, fds, npipes, commands, cmd_index, fd_in>>
                \/ /\ procs' = Spawn(cmd_index, command, "exec_commands", TRUE,
                                     FinalOps(fd_in), fds, npipes)
                   /\ pid' = new
                   /\ \/ /\ fds' = close(fds, fd_in)
                         /\ Return("EXIT_SUCCESS", FromCheckEnv)
                         /\ heap' = ReturnedTo(FreeStages(heap, 1, commands.length))
                         /\ UNCHANGED log
                      \/ /\ log.failsLeft > 0
                         /\ fds' \in CloseFailed(fds, fd_in)
                         /\ log' = Failed("close")
                         /\ Return("EXIT_FAILURE", FromCheckEnv)
                         /\ heap' = ReturnedTo(heap)
                   /\ UNCHANGED <<npipes, commands, cmd_index, fd_in>>
           ELSE \/ /\ log.failsLeft > 0
                   /\ log' = Failed("pipe")
                   /\ Return("EXIT_FAILURE", FromCheckEnv)
                   /\ heap' = ReturnedTo(heap)
                   /\ UNCHANGED <<pid, procs, fds, npipes, commands, cmd_index, fd_in>>
                \/ /\ log.failsLeft > 0
                   /\ fds' = p.fds
                   /\ npipes' = npipes + 1
                   /\ pid' = -1
                   /\ log' = Failed("fork")
                   /\ Return("EXIT_FAILURE", FromCheckEnv)
                   /\ heap' = ReturnedTo(heap)
                   /\ UNCHANGED <<procs, commands, cmd_index, fd_in>>
                \/ /\ log.failsLeft > 0
                   /\ procs' = child
                   /\ pid' = new
                   /\ npipes' = npipes + 1
                   /\ \/ fds' \in CloseFailed(p.fds, W)
                      \/ /\ fd_in # STDIN_FILENO
                         /\ fds' \in CloseFailed(t1, fd_in)
                   /\ log' = Failed("close")
                   /\ Return("EXIT_FAILURE", FromCheckEnv)
                   /\ heap' = ReturnedTo(heap)
                   /\ UNCHANGED <<commands, cmd_index, fd_in>>
                \/ /\ procs' = child
                   /\ pid' = new
                   /\ npipes' = npipes + 1
                   /\ fds' = t2
                   /\ cmd_index' = cmd_index + 1
                   /\ fd_in' = R
                   /\ UNCHANGED <<pc, fg_process, commands, ret_val, heap, log>>
    /\ UNCHANGED <<parseVars, maskVars, hpc, status, cwd, machine, cycle, clock>>

\* main.c:103-106: next: free(commands->cmds); free(commands); sigrelse(SIGINT).
NextLabel ==
    /\ pc = "next" /\ hpc = "none"
    /\ heap' = FreeSeq(heap, <<CMDS, LIST>>)
    /\ sigint_held' = FALSE
    /\ pc' = "fgcheck"
    /\ UNCHANGED <<parseVars, jobVars, procs, sigchld_held, hpc, status, frameVars,
                   fds, npipes, cwd, machine, cycle, clock, log>>

\* main.c:108-112: if (fg_process) { int status; sighold(SIGCHLD); ... }: the
\* block is entered with an indeterminate status, or skipped.
FgCheck ==
    /\ pc = "fgcheck" /\ hpc = "none"
    /\ IF fg_process
       THEN /\ status' = "uninit"
            /\ sigchld_held' = TRUE
            /\ log' = [log EXCEPT !.waited = @ \cup {pid}]
            /\ pc' = "wait"
       ELSE /\ pc' = "reap"
            /\ UNCHANGED <<status, sigchld_held, log>>
    /\ UNCHANGED <<parseVars, jobVars, procs, sigint_held, hpc, frameVars,
                   kernelVars, cycle, clock>>

\* main.c:115: one turn of while (-1 != waitpid(pid, &status, 0)) that returns
\* a terminated child and stores its status.
WaitReap ==
    /\ pc = "wait" /\ hpc = "none"
    /\ \E p \in WaitSet(pid) :
        /\ procs[p].state = "zombie"
        /\ procs' = Reap(p, "fgwait")
        /\ status' = procs[p].status
    /\ UNCHANGED <<parseVars, pc, jobVars, maskVars, hpc, frameVars, kernelVars,
                   cycle, clock, log>>

\* main.c:115-120: waitpid returns -1 (no child left to wait for under pid) and
\* the loop ends; then the test of status: anything but a successful exit
\* continues the for loop as it stands. Reading a status no waitpid stored is
\* undefined: either branch.
WaitDone ==
    /\ pc = "wait" /\ hpc = "none"
    /\ WaitSet(pid) = {}
    /\ \/ /\ status \in {"ok", "uninit"}
          /\ pc' = "time"
       \/ /\ status \in {"fail", "signaled", "uninit"}
          /\ pc' = "reap"
    /\ UNCHANGED <<parseVars, jobVars, procs, maskVars, hpc, status, frameVars,
                   kernelVars, cycle, clock, log>>

\* main.c:121-129: gettimeofday; sigrelse(SIGCHLD); the elapsed time is printed;
\* fg_process = false. (The value printed is the subject of SpecTime.)
Time ==
    /\ pc = "time" /\ hpc = "none"
    /\ sigchld_held' = FALSE
    /\ log' = [log EXCEPT !.timed = @ + 1]
    /\ fg_process' = FALSE
    /\ pc' = "reap"
    /\ UNCHANGED <<parseVars, pid, procs, sigint_held, hpc, status, frameVars,
                   kernelVars, cycle, clock>>

\* exit_cmd (main.c:331-343): signal(SIGTERM, SIG_IGN); kill(0, SIGTERM) reaches
\* every process of the shell's group: all its children.
ExitCmd ==
    /\ pc = "exit_cmd" /\ hpc = "none"
    /\ procs' = Signal(Pids)
    /\ pc' = "exit_wait"
    /\ UNCHANGED <<parseVars, jobVars, maskVars, hpc, status, frameVars, kernelVars,
                   cycle, clock, log>>

\* exit_cmd (main.c:347): one turn of while (-1 != waitpid(0, NULL, 0)) that
\* returns a terminated child.
ExitReap ==
    /\ pc = "exit_wait" /\ hpc = "none"
    /\ \E p \in WaitSet(0) :
        /\ procs[p].state = "zombie"
        /\ procs' = Reap(p, "exit")
    /\ UNCHANGED <<parseVars, pc, jobVars, maskVars, hpc, status, frameVars,
                   kernelVars, cycle, clock, log>>

\* exit_cmd (main.c:347-350): no child is left; exit(EXIT_SUCCESS).
ExitDone ==
    /\ pc = "exit_wait" /\ hpc = "none"
    /\ WaitSet(0) = {}
    /\ pc' = "exited"
    /\ UNCHANGED <<parseVars, jobVars, procs, maskVars, hpc, status, frameVars,
                   kernelVars, cycle, clock, log>>

\* The shell process runs (it has neither ended nor faulted).
Alive == pc \notin {"start", "exited", "returned", "crashed", "parse", "clock"}

\* signal_handler(SIGINT) up to its wait (main.c:480-488), entered when SIGINT
\* is delivered to the shell and not held. With fg_process and pid != -1 it
\* sends SIGTERM to pid: kill fails for a pid that names no process (the handler
\* returns), else the handler goes on to waitpid. Otherwise it unwinds at once.
SigInt ==
    /\ Alive /\ hpc = "none"
    /\ ~sigint_held
    /\ log.sigsLeft > 0
    /\ IF fg_process /\ pid # -1
       THEN IF pid \in Unreaped
            THEN /\ procs' = Signal({pid})
                 /\ hpc' = "waitpid"
                 /\ log' = [log EXCEPT !.sigsLeft = @ - 1,
                                       !.killed = @ \cup {pid}]
                 /\ UNCHANGED <<pc, maskVars>>
            ELSE /\ log' = [log EXCEPT !.sigsLeft = @ - 1]
                 /\ UNCHANGED <<pc, procs, hpc, maskVars>>
       ELSE /\ LongJmp
            /\ log' = [log EXCEPT !.sigsLeft = @ - 1, !.interrupted = TRUE]
            /\ UNCHANGED procs
    /\ UNCHANGED <<parseVars, jobVars, status, frameVars, kernelVars, cycle, clock>>

\* signal_handler (main.c:489-516): waitpid(pid, NULL, 0) returns once the
\* signalled child has terminated; the newline is written and the handler
\* unwinds with siglongjmp.
HandlerWait ==
    /\ hpc = "waitpid"
    /\ procs[pid].state = "zombie"
    /\ procs' = Reap(pid, "handler")
    /\ LongJmp
    /\ log' = [log EXCEPT !.interrupted = TRUE, !.unwound = TRUE]
    /\ UNCHANGED <<parseVars, jobVars, status, frameVars, kernelVars, cycle, clock>>

\* run_cmd without its exit: the child returns to its caller.
run_cmd_returns(proc) == [proc EXCEPT !.state = "stray", !.execFailed = TRUE]

\* run_cmd after execvp returned (main.c:244-246): perror(SMSH);
\* exit(EXIT_FAILURE). The pager stage ends the same way (main.c:282).
run_cmd_failed(proc) ==
    [proc EXCEPT !.state = "zombie", !.execFailed = TRUE, !.status = "fail"]

\* Candidates with every stage called `pager` given the pager's treatment.
CandidatesAnyStage(proc) ==
    IF proc.via = "exec_commands" /\ proc.argv[1] = pager_s
    THEN (IF machine.PAGER.set THEN <<machine.PAGER.value>> ELSE << >>)
         \o <<LESS_S, MORE_S>>
    ELSE <<proc.argv[1]>>

\* The programs the child of command argv tries to exec, in order: for the
\* final stage of exec_commands called `pager` (main.c:264-282) the value of
\* PAGER if it is set, less and then more; else argv[0] (run_cmd, main.c:243).
Candidates(proc) ==
    IF proc.via = "exec_commands" /\ proc.last /\ proc.argv[1] = pager_s
    THEN (IF machine.PAGER.set THEN <<machine.PAGER.value>> ELSE << >>)
         \o <<LESS_S, MORE_S>>
    ELSE <<proc.argv[1]>>

\* The programs of the sequence cands a child goes through: up to the first one
\* found, all of them when none is.
Attempts(cands) ==
    LET found == {i \in 1..Len(cands) : cands[i] \notin Missing}
    IN  IF found = {} THEN cands
        ELSE SubSeq(cands, 1, CHOOSE i \in found : \A j \in found : i <= j)

\* The child p between fork and exec (main.c:232-233, 258-284, 305-318): its
\* redirections, each under TRY, then the exec. A failing dup2 or close makes
\* the child return EXIT_FAILURE to its caller, in the code of the shell. The
\* programs are tried in order (tried) and the first one found replaces the
\* image; when none is found the child prints
\* the error and calls exit(EXIT_FAILURE). A NULL program name (no argument) is
\* undefined in strcmp and in execvp: the child exits with failure or faults.
ChildExec(p) ==
    /\ p \in Pids
    /\ procs[p].state = "forked"
    /\ LET proc  == procs[p]
           n     == Len(proc.ops)
           done  == RunOps(proc.fds, proc.ops, n)
           found == {i \in 1..Len(Candidates(proc)) : Candidates(proc)[i] \notin Missing}
       IN  \/ /\ log.childFails /\ log.failsLeft > 0
              /\ \E k \in 1..n :
                    procs' = [procs EXCEPT ![p].state = "stray",
                                           ![p].fds = RunOps(proc.fds, proc.ops, k - 1)]
              /\ log' = [log EXCEPT !.failsLeft = @ - 1]
           \/ /\ proc.argv = << >>
              /\ \/ procs' = [procs EXCEPT ![p] = run_cmd_failed([proc EXCEPT !.fds = done])]
                 \/ procs' = [procs EXCEPT ![p].state = "zombie", ![p].fds = done,
                                           ![p].status = "signaled"]
              /\ UNCHANGED log
           \/ /\ proc.argv # << >>
              /\ found # {}
              /\ procs' = [procs EXCEPT
                              ![p].state = "running", ![p].fds = done,
                              ![p].tried = Attempts(Candidates(proc)),
                              ![p].image = Candidates(proc)[CHOOSE i \in found :
                                                \A j \in found : i <= j]]
              /\ UNCHANGED log
           \/ /\ proc.argv # << >>
              /\ found = {}
              /\ procs' = [procs EXCEPT ![p] =
                              run_cmd_failed([proc EXCEPT !.fds = done,
                                                          !.tried = Candidates(proc)])]
              /\ UNCHANGED log
    /\ UNCHANGED <<parseVars, pc, jobVars, maskVars, hpc, status, frameVars,
                   kernelVars, cycle, clock>>

\* A child terminates: by exit, with success or failure, of the program it runs
\* (or of the shell code it strayed into), or by the SIGTERM it was sent.
ChildExit(p) ==
    /\ Alive
    /\ \/ /\ procs[p].state \in {"running", "stray"}
          /\ \E st \in {"ok", "fail"} :
                procs' = [procs EXCEPT ![p].state = "zombie", ![p].status = st]
       \/ /\ procs[p].state = "dying"
          /\ procs' = [procs EXCEPT ![p].state = "zombie", ![p].status = "signaled"]
    /\ UNCHANGED <<parseVars, pc, jobVars, maskVars, hpc, status, frameVars,
                   kernelVars, cycle, clock, log>>

\* A child whose redirection failed goes on in the code of the shell: TRY has
\* returned EXIT_FAILURE from exec_commands to main (main.c:100), or through
\* checkEnv_cmd and exec_cmd to main.c:94. The child frees what main frees and
\* releases SIGINT (main.c:103-106); with fg_process it waits for pid, which
\* fork() set to 0 in the child: waitpid(0, ..) fails at once, the child
\* having no child (main.c:115). Either way it comes to the top of the loop,
\* prints the prompt and calls readline (main.c:46-62).
ChildMain(p) ==
    /\ procs[p].state = "stray"
    /\ procs[p].at # "readline"
    /\ procs' = [procs EXCEPT ![p].at = "readline"]
    /\ UNCHANGED <<parseVars, pc, jobVars, maskVars, hpc, status, frameVars,
                   kernelVars, cycle, clock, log>>

\* The steps of the shell process that wait for no input.
ShellStep ==
    \/ Startup
    \/ ReapOne
    \/ ReapDone
    \/ ExecCmd
    \/ ExecCommands
    \/ NextLabel
    \/ FgCheck
    \/ WaitReap
    \/ WaitDone
    \/ Time
    \/ ExitCmd
    \/ ExitReap
    \/ ExitDone

\* The steps of the children.
ChildStep ==
    \/ \E p \in Pids : ChildExec(p)
    \/ \E p \in Pids : ChildExit(p)

NextQuiet ==
    \/ ShellStep
    \/ \E line \in ShellLines : ReadLine(line)
    \/ Eof
    \/ ChildStep

Next ==
    \/ NextQuiet
    \/ SigInt
    \/ HandlerWait
    \/ \E p \in Pids : ChildMain(p)

Spec == Init /\ [][Next]_vars

\* The lines that go through exec_commands: the pipelines and checkEnv.
PipeLines == {line \in ShellLines : ForksNeeded(parse_commands(line)) >= 2}

NextFail ==
    \/ ShellStep
    \/ \E line \in PipeLines : ReadLine(line)
    \/ Eof
    \/ ChildStep

\* The runs of MaxFailCycles lines, each a pipeline, in which system calls of
\* the shell process may fail and no SIGINT is delivered.
InitFail ==
    /\ input = << >>
    /\ parsed = NotParsed
    /\ pc = "start"
    /\ clock = NoClock
    /\ pid = -1
    /\ fg_process = FALSE
    /\ procs = << >>
    /\ sigint_held = FALSE
    /\ sigchld_held = FALSE
    /\ hpc = "none"
    /\ status = "uninit"
    /\ commands = NoCommands
    /\ cmd_index = 0
    /\ fd_in = STDIN_FILENO
    /\ ret_val = "none"
    /\ fds = StdFds
    /\ npipes = 0
    /\ cwd = HOME
    /\ machine = TheMachine
    /\ heap = NoHeap
    /\ cycle = 0
    /\ log = [NoLog EXCEPT !.linesLeft = MaxFailCycles, !.failsLeft = MaxFailures]

SpecFail == InitFail /\ [][NextFail]_vars

\* The runs in which no system call fails and no SIGINT is delivered.
InitQuiet ==
    /\ input = << >>
    /\ parsed = NotParsed
    /\ pc = "start"
    /\ clock = NoClock
    /\ pid = -1
    /\ fg_process = FALSE
    /\ procs = << >>
    /\ sigint_held = FALSE
    /\ sigchld_held = FALSE
    /\ hpc = "none"
    /\ status = "uninit"
    /\ commands = NoCommands
    /\ cmd_index = 0
    /\ fd_in = STDIN_FILENO
    /\ ret_val = "none"
    /\ fds = StdFds
    /\ npipes = 0
    /\ cwd = HOME
    /\ machine = TheMachine
    /\ heap = NoHeap
    /\ cycle = 0
    /\ log = [NoLog EXCEPT !.linesLeft = MaxCycles]

SpecQuiet == InitQuiet /\ [][NextQuiet]_vars

\* The steps the scheduler owes the processes: a step of the shell that waits
\* for no input, or the exec of a forked child.
Scheduled ==
    \/ ShellStep
    \/ \E p \in Pids : ChildExec(p)

\* The runs of MaxLiveCycles lines in which no system call fails and no SIGINT
\* is delivered.
InitLive ==
    /\ input = << >>
    /\ parsed = NotParsed
    /\ pc = "start"
    /\ clock = NoClock
    /\ pid = -1
    /\ fg_process = FALSE
    /\ procs = << >>
    /\ sigint_held = FALSE
    /\ sigchld_held = FALSE
    /\ hpc = "none"
    /\ status = "uninit"
    /\ commands = NoCommands
    /\ cmd_index = 0
    /\ fd_in = STDIN_FILENO
    /\ ret_val = "none"
    /\ fds = StdFds
    /\ npipes = 0
    /\ cwd = HOME
    /\ machine = TheMachine
    /\ heap = NoHeap
    /\ cycle = 0
    /\ log = [NoLog EXCEPT !.linesLeft = MaxLiveCycles]

\* Those runs under the scheduler: while some process can take a step it is
\* owed, one is taken.
SpecLive ==
    /\ InitLive
    /\ [][NextQuiet]_vars
    /\ WF_vars(Scheduled)

\* ----------------------------------------------------------------- SpecCd

MaxCdCycles == 2

\* The cd lines typed at the prompt: no argument; `~`; `~/d`; `~/`; `~d`
\* (HOME followed by d: no directory); a relative and an absolute path; a path
\* that names nothing; two arguments.
CdLines ==
    { CD_S,
      CD_S \o <<SPACE, TILDE>>,
      CD_S \o <<SPACE, TILDE, SLASH, "d">>,
      CD_S \o <<SPACE, TILDE, SLASH>>,
      CD_S \o <<SPACE, TILDE, "d">>,
      CD_S \o <<SPACE, "d">>,
      CD_S \o <<SPACE, SLASH>>,
      CD_S \o <<SPACE, "x">>,
      CD_S \o <<SPACE, "d", SPACE, "d">> }

\* The shell started in any directory, no child, nothing printed.
InitCd ==
    /\ input = << >>
    /\ parsed = NotParsed
    /\ pc = "start"
    /\ clock = NoClock
    /\ pid = -1
    /\ fg_process = FALSE
    /\ procs = << >>
    /\ sigint_held = FALSE
    /\ sigchld_held = FALSE
    /\ hpc = "none"
    /\ status = "uninit"
    /\ commands = NoCommands
    /\ cmd_index = 0
    /\ fd_in = STDIN_FILENO
    /\ ret_val = "none"
    /\ fds = StdFds
    /\ npipes = 0
    /\ cwd \in Dirs
    /\ machine = TheMachine
    /\ heap = NoHeap
    /\ cycle = 0
    /\ log = [NoLog EXCEPT !.linesLeft = MaxCdCycles]

NextCd ==
    \/ Startup
    \/ ReapDone
    \/ \E line \in CdLines : ReadLine(line)
    \/ ExecCmd
    \/ NextLabel
    \/ FgCheck

\* The runs of MaxCdCycles lines, each a cd command.
SpecCd == InitCd /\ [][NextCd]_vars

\* -------------------------------------------------------------- SpecPager

\* The values of PAGER: not set, a program that is not found (x), one that is.
Pagers == {NoPager, [set |-> TRUE, value |-> X_S], [set |-> TRUE, value |-> <<"b">>]}

\* The machines: any of less, more and pager may be missing besides x and cd.
Machines ==
    [PAGER : Pagers,
     missing : {TheMachine.missing \cup m : m \in SUBSET {LESS_S, MORE_S, pager_s}}]

\* `pager` as the final and as the first stage of a pipeline.
PagerLines == {<<"a", PIPE>> \o pager_s, pager_s \o <<PIPE, "a">>}

InitPager ==
    /\ input = << >>
    /\ parsed = NotParsed
    /\ pc = "start"
    /\ clock = NoClock
    /\ pid = -1
    /\ fg_process = FALSE
    /\ procs = << >>
    /\ sigint_held = FALSE
    /\ sigchld_held = FALSE
    /\ hpc = "none"
    /\ status = "uninit"
    /\ commands = NoCommands
    /\ cmd_index = 0
    /\ fd_in = STDIN_FILENO
    /\ ret_val = "none"
    /\ fds = StdFds
    /\ npipes = 0
    /\ cwd = HOME
    /\ machine \in Machines
    /\ heap = NoHeap
    /\ cycle = 0
    /\ log = [NoLog EXCEPT !.linesLeft = 1]

NextPager ==
    \/ Startup
    \/ ReapOne
    \/ ReapDone
    \/ \E line \in PagerLines : ReadLine(line)
    \/ ExecCommands
    \/ NextLabel
    \/ FgCheck
    \/ WaitReap
    \/ WaitDone
    \/ Time
    \/ ChildStep

\* One pipeline with a stage called pager, on every machine.
SpecPager == InitPager /\ [][NextPager]_vars

\* ---------------------------------------------------------------- SpecEnv

MaxEnvArgs == 3

\* The words given to checkEnv.
EnvWords == {<<"a">>, <<"b">>}

\* The lists of at most n words.
RECURSIVE EnvArgLists(_)
EnvArgLists(n) ==
    IF n = 0 THEN {<< >>}
    ELSE LET shorter == EnvArgLists(n - 1)
         IN  shorter \cup {Append(l, w) : l \in {m \in shorter : Len(m) = n - 1},
                                          w \in EnvWords}

\* The words of l, a space before each.
RECURSIVE JoinArgs(_)
JoinArgs(l) == IF l = << >> THEN << >> ELSE <<SPACE>> \o Head(l) \o JoinArgs(Tail(l))

\* checkEnv with up to MaxEnvArgs arguments.
EnvLines == {CHECKENV_S \o JoinArgs(l) : l \in EnvArgLists(MaxEnvArgs)}

InitEnv ==
    /\ input = << >>
    /\ parsed = NotParsed
    /\ pc = "start"
    /\ clock = NoClock
    /\ pid = -1
    /\ fg_process = FALSE
    /\ procs = << >>
    /\ sigint_held = FALSE
    /\ sigchld_held = FALSE
    /\ hpc = "none"
    /\ status = "uninit"
    /\ commands = NoCommands
    /\ cmd_index = 0
    /\ fd_in = STDIN_FILENO
    /\ ret_val = "none"
    /\ fds = StdFds
    /\ npipes = 0
    /\ cwd = HOME
    /\ machine = TheMachine
    /\ heap = NoHeap
    /\ cycle = 0
    /\ log = [NoLog EXCEPT !.linesLeft = 1, !.procsMax = EnvStages]

NextEnv ==
    \/ Startup
    \/ ReapDone
    \/ \E line \in EnvLines : ReadLine(line)
    \/ ExecCmd
    \/ ExecCommands
    \/ NextLabel
    \/ FgCheck

\* One checkEnv line, up to the foreground wait, its children not yet scheduled.
SpecEnv == InitEnv /\ [][NextEnv]_vars

\* ------------------------------------------------------------- SpecDet
\* The build with SIGDET set: signal_handler is registered for SIGCHLD too
\* (main.c:22-25), and exit_cmd does not wait (main.c:333-348).

\* The children whose termination has raised a SIGCHLD that the shell has not
\* handled yet: SIGCHLD is pending for the shell while there is one.
Pending == {p \in Pids : procs[p].state \in {"zombie", "reaped"} /\ ~procs[p].notified}

\* signal_handler(SIGCHLD) (main.c:497-516), entered when SIGCHLD is pending
\* and not held: with fg_process it returns, else it writes the newline and
\* unwinds. When it returns into the waitpid of the handler of SIGINT
\* (main.c:489) and the child waited for has not terminated, that waitpid
\* fails (EINTR: sigaction without SA_RESTART, main.c:20) and the handler of
\* SIGINT unwinds.
SigChld ==
    /\ Alive
    /\ ~sigchld_held
    /\ Pending # {}
    /\ procs' = [p \in Pids |-> IF p \in Pending
                                 THEN [procs[p] EXCEPT !.notified = TRUE]
                                 ELSE procs[p]]
    /\ IF fg_process
       THEN IF hpc = "waitpid" /\ procs[pid].state # "zombie"
            THEN /\ LongJmp
                 /\ log' = [log EXCEPT !.interrupted = TRUE, !.unwound = TRUE]
            ELSE UNCHANGED <<pc, hpc, maskVars, log>>
       ELSE /\ LongJmp
            /\ log' = [log EXCEPT !.interrupted = TRUE]
    /\ UNCHANGED <<parseVars, jobVars, status, frameVars, kernelVars, cycle, clock>>

\* exit_cmd with SIGDET (main.c:331-350): signal(SIGCHLD, SIG_IGN);
\* signal(SIGTERM, SIG_IGN); kill(0, SIGTERM); exit(EXIT_SUCCESS) without a
\* wait.
ExitCmdDet ==
    /\ pc = "exit_cmd" /\ hpc = "none"
    /\ procs' = Signal(Pids)
    /\ pc' = "exited"
    /\ UNCHANGED <<parseVars, jobVars, maskVars, hpc, status, frameVars, kernelVars,
                   cycle, clock, log>>

\* The lines typed at the prompt of that build: a command in the foreground
\* and in the background, a pipeline, a program that is not found.
DetLines ==
    { <<"a">>,
      <<"a", SPACE, AMP>>,
      <<"a", PIPE, "b">>,
      X_S }

\* The runs of MaxCycles lines with SIGINT and no failing system call.
InitDet ==
    /\ input = << >>
    /\ parsed = NotParsed
    /\ pc = "start"
    /\ clock = NoClock
    /\ pid = -1
    /\ fg_process = FALSE
    /\ procs = << >>
    /\ sigint_held = FALSE
    /\ sigchld_held = FALSE
    /\ hpc = "none"
    /\ status = "uninit"
    /\ commands = NoCommands
    /\ cmd_index = 0
    /\ fd_in = STDIN_FILENO
    /\ ret_val = "none"
    /\ fds = StdFds
    /\ npipes = 0
    /\ cwd = HOME
    /\ machine = TheMachine
    /\ heap = NoHeap
    /\ cycle = 0
    /\ log = [NoLog EXCEPT !.linesLeft = MaxCycles, !.sigsLeft = MaxSigints]

\* No SIGCHLD is due: a pending SIGCHLD that is not held is delivered before
\* the main loop executes anything further.
Undue == Pending = {} \/ sigchld_held

NextDet ==
    \/ Undue /\ Startup
    \/ Undue /\ ReapOne
    \/ Undue /\ ReapDone
    \/ Undue /\ \E line \in DetLines : ReadLine(line)
    \/ Undue /\ Eof
    \/ Undue /\ ExecCmd
    \/ Undue /\ ExecCommands
    \/ Undue /\ NextLabel
    \/ Undue /\ FgCheck
    \/ Undue /\ WaitReap
    \/ Undue /\ WaitDone
    \/ Undue /\ Time
    \/ Undue /\ ExitCmdDet
    \/ ChildStep
    \/ SigInt
    \/ HandlerWait
    \/ SigChld

SpecDet == InitDet /\ [][NextDet]_vars

\* ------------------------------------------------ the process-group variant
\* src/unnamed/part_003: the shell that also handles SIGTERM and runs a
\* pipeline of several stages under one forked process, which it names by its
\* process group. Its main loop has the statements of main.c for reaping,
\* the foreground wait, the elapsed time and exit_cmd; what differs is below.

MaxGroupCycles == 2

MaxSigterms == 1

\* The outer loop of the variant's parse_commands (part_003:185-245): as CmdLoop,
\* but a token after `&` empties the list (commands->length = 0) where main.c
\* returns NULL.
RECURSIVE CmdLoopPg(_, _, _, _)
CmdLoopPg(line, save, cmds, bg) ==
    LET c == strtok_r(line, save, PIPE)
    IN  IF ~c.found THEN [null |-> FALSE, bg |-> bg, length |-> Len(cmds), cmds |-> cmds]
        ELSE LET a == ArgLoop(c.tok, 1, NewCommand, bg)
             IN  IF a.error
                 THEN [null |-> FALSE, bg |-> TRUE, length |-> 0, cmds |-> << >>]
                 ELSE CmdLoopPg(line, c.save, Append(cmds, a.command), a.bg)

\* void parse_commands(CommandList *commands, char *input) of the variant.
parse_commands_pg(line) == CmdLoopPg(line, 1, << >>, FALSE)

\* The heap side of CmdLoopPg: the CommandList is on main's stack; when a token
\* follows `&` the complete Commands and the Command under construction are
\* freed (part_003:199-206).
RECURSIVE CmdLoopHeapPg(_, _, _, _, _)
CmdLoopHeapPg(line, save, n, bg, h) ==
    LET c == strtok_r(line, save, PIPE)
    IN  IF ~c.found THEN h
        ELSE LET a  == ArgLoop(c.tok, 1, NewCommand, bg)
                 h1 == malloc(h, {CMD(n + 1), ARGS(n + 1)})
             IN  IF a.error
                 THEN FreeSeq(FreeCommands(h1, 1, n), <<ARGS(n + 1), CMD(n + 1)>>)
                 ELSE CmdLoopHeapPg(line, c.save, n + 1, a.bg, h1)

\* What the variant's parse_commands leaves on the heap (part_003:183).
parse_heap_pg(line) == CmdLoopHeapPg(line, 1, 0, FALSE, malloc(NoHeap, {CMDS}))

\* The lines typed at the variant's prompt.
GroupLines ==
    { << >>,
      <<"a">>,
      <<"a", SPACE, AMP>>,
      <<"a", PIPE, "b">>,
      <<"a", PIPE, "b", SPACE, AMP>>,
      <<AMP, SPACE, "a">>,
      X_S }

\* The forks a parsed line asks of the variant's shell process: one for a
\* single command, one (the process running the pipeline) for several stages.
ForksNeededPg(res) == IF res.length = 0 THEN 0 ELSE 1

InitGroup ==
    /\ input = << >>
    /\ parsed = NotParsed
    /\ pc = "start_pg"
    /\ clock = NoClock
    /\ pid = -1
    /\ fg_process = FALSE
    /\ procs = << >>
    /\ sigint_held = FALSE
    /\ sigchld_held = FALSE
    /\ hpc = "none"
    /\ status = "uninit"
    /\ commands = NoCommands
    /\ cmd_index = 0
    /\ fd_in = STDIN_FILENO
    /\ ret_val = "none"
    /\ fds = StdFds
    /\ npipes = 0
    /\ cwd = HOME
    /\ machine = TheMachine
    /\ heap = NoHeap
    /\ cycle = 0
    /\ log = [NoLog EXCEPT !.linesLeft = MaxGroupCycles, !.sigsLeft = MaxSigterms]

\* part_003:15-31: signal_handler is registered for SIGINT and SIGTERM;
\* sigsetjmp(prompt_mark, 1).
StartupPg ==
    /\ pc = "start_pg"
    /\ pc' = "reap"
    /\ UNCHANGED <<parseVars, jobVars, procs, maskVars, hpc, status, frameVars,
                   kernelVars, cycle, clock, log>>

\* part_003:66-92 and 126: readline returns a line; sighold(SIGINT);
\* parse_commands; on zero stages free(commands.cmds) and continue (SIGINT
\* stays held); else exec(), which starts with fg_process = !commands->bg.
ReadLinePg(line) ==
    /\ pc = "readline" /\ hpc = "none"
    /\ log.linesLeft > 0
    /\ LET res == parse_commands_pg(line)
       IN  /\ Len(procs) + ForksNeededPg(res) <= log.procsMax
           /\ input' = line
           /\ parsed' = [done |-> TRUE, res |-> res]
           /\ commands' = [length |-> res.length, cmds |-> res.cmds, bg |-> res.bg]
           /\ log' = [log EXCEPT !.linesLeft = @ - 1,
                                 !.killed = {}, !.waited = {}, !.timed = 0,
                                 !.unwound = FALSE, !.interrupted = FALSE,
                                 !.failed = "none",
                                 !.atRead = [pid |-> pid, fg |-> fg_process,
                                             npipes |-> npipes, cwd |-> cwd],
                                 !.errors = IF res.length = 0 /\ res.bg THEN 1 ELSE 0]
           /\ IF res.length = 0
              THEN /\ pc' = "reap"
                   /\ heap' = free(parse_heap_pg(line), CMDS)
                   /\ UNCHANGED fg_process
              ELSE /\ fg_process' = ~res.bg
                   /\ heap' = parse_heap_pg(line)
                   /\ pc' = IF res.length = 1 THEN "exec_cmd" ELSE "exec"
    /\ sigint_held' = TRUE
    /\ cycle' = cycle + 1
    /\ cmd_index' = 0
    /\ fd_in' = STDIN_FILENO
    /\ ret_val' = "none"
    /\ UNCHANGED <<pid, procs, sigchld_held, hpc, status, fds, npipes, cwd, machine,
                   clock>>

\* exec() for several stages up to its fork (part_003:125-163): sighold(SIGCHLD);
\* switch (pid = fork()). The child runs exec_commands for the whole pipeline,
\* waits and exits; here it is a process that runs and then exits with some
\* status. On failure fg_process = false and exec() goes on to its end.
exec ==
    /\ pc = "exec" /\ hpc = "none"
    /\ \/ /\ procs' = [Spawn(0, NewCommand, "exec", FALSE, << >>, fds, npipes)
                          EXCEPT ![Len(procs) + 1].state = "running"]
          /\ pid' = Len(procs) + 1
          /\ sigchld_held' = TRUE
          /\ pc' = "exec_parent"
          /\ UNCHANGED <<fg_process, log>>
       \/ /\ log.failsLeft > 0
          /\ pid' = -1
          /\ fg_process' = FALSE
          /\ log' = Failed("fork")
          /\ pc' = "next"
          /\ UNCHANGED <<procs, sigchld_held>>
    /\ UNCHANGED <<parseVars, sigint_held, hpc, status, frameVars, kernelVars,
                   cycle, clock>>

\* exec() in the parent after the fork (part_003:164-172): pid = -getpgid(pid);
\* the Commands are freed; sigrelse(SIGCHLD).
exec_parent ==
    /\ pc = "exec_parent" /\ hpc = "none"
    /\ pid' = -getpgid(pid)
    /\ heap' = FreeCommands(heap, 1, commands.length)
    /\ sigchld_held' = FALSE
    /\ pc' = "next"
    /\ UNCHANGED <<parseVars, fg_process, procs, sigint_held, hpc, status,
                   frameVars, fds, npipes, cwd, machine, cycle, clock, log>>

\* The end of exec() and the statement after its call (part_003:173, 94):
\* free(commands->cmds); sigrelse(SIGINT).
NextLabelPg ==
    /\ pc = "next" /\ hpc = "none"
    /\ heap' = free(heap, CMDS)
    /\ sigint_held' = FALSE
    /\ pc' = "fgcheck"
    /\ UNCHANGED <<parseVars, jobVars, procs, sigchld_held, hpc, status, frameVars,
                   fds, npipes, cwd, machine, cycle, clock, log>>

\* signal_handler(SIGTERM) (part_003:529-537, 566-574), entered whenever SIGTERM
\* is delivered to the shell (no code holds it) until exit_cmd ignores it: with
\* pid > 0 exit(EXIT_SUCCESS); otherwise the newline and siglongjmp.
SigTerm ==
    /\ Alive /\ pc \notin {"start_pg", "exit_wait"} /\ hpc = "none"
    /\ log.sigsLeft > 0
    /\ IF pid > 0
       THEN /\ pc' = "exited"
            /\ log' = [log EXCEPT !.sigsLeft = @ - 1]
            /\ UNCHANGED <<hpc, maskVars>>
       ELSE /\ LongJmp
            /\ log' = [log EXCEPT !.sigsLeft = @ - 1, !.interrupted = TRUE]
    /\ UNCHANGED <<parseVars, jobVars, procs, status, frameVars, kernelVars,
                   cycle, clock>>

NextGroup ==
    \/ StartupPg
    \/ ReapOne
    \/ ReapDone
    \/ \E line \in GroupLines : ReadLinePg(line)
    \/ Eof
    \/ ExecCmd
    \/ exec
    \/ exec_parent
    \/ NextLabelPg
    \/ FgCheck
    \/ WaitReap
    \/ WaitDone
    \/ Time
    \/ ExitCmd
    \/ ExitReap
    \/ ExitDone
    \/ ChildStep
    \/ SigTerm

\* The variant's shell with SIGTERM delivered to it at most MaxSigterms times,
\* no SIGINT and no failing system call.
SpecGroup == InitGroup /\ [][NextGroup]_vars

\* ---------------------------------------- the process running a pipeline
\* The child exec() forks for a line of several stages (part_003:149, 156-162).
\* In SpecCoord the variables of the shell process describe this child: a copy
\* of the shell at the fork, and procs are its own children.

\* The pipelines handed to exec(): two stages that are found, one with a stage
\* that is not found, at either end, and three stages.
CoordLines ==
    { <<"a", PIPE, "b">>,
      <<"a", PIPE>> \o X_S,
      X_S \o <<PIPE, "a">>,
      <<"a", PIPE, "b", PIPE, "a">> }

\* fork() has returned 0 in exec() (part_003:149): pid = 0, SIGINT and SIGCHLD
\* are held (part_003:71, 148), the line is parsed, and the child is about to
\* call exec_commands(commands, 0, STDIN_FILENO).
InitCoord ==
    /\ input \in CoordLines
    /\ parsed = [done |-> TRUE, res |-> parse_commands_pg(input)]
    /\ pc = "exec_commands_pg"
    /\ clock = NoClock
    /\ pid = 0
    /\ fg_process = ~parsed.res.bg
    /\ procs = << >>
    /\ sigint_held = TRUE
    /\ sigchld_held = TRUE
    /\ hpc = "none"
    /\ status = "uninit"
    /\ commands = [length |-> parsed.res.length, cmds |-> parsed.res.cmds,
                   bg |-> parsed.res.bg]
    /\ cmd_index = 0
    /\ fd_in = STDIN_FILENO
    /\ ret_val = "none"
    /\ fds = StdFds
    /\ npipes = 0
    /\ cwd = HOME
    /\ machine = TheMachine
    /\ heap = parse_heap_pg(input)
    /\ cycle = 1
    /\ log = NoLog

\* The child of stage i of the pipeline: this_pid of the level cmd_index = i
\* of exec_commands (part_003:365).
this_pid(i) == CHOOSE p \in Pids : procs[p].job = cycle /\ procs[p].stage = i

\* One level of the variant's exec_commands on its way in (part_003:284-366),
\* with no failing system call: the last stage forks, closes fd_in, frees the
\* Commands and returns EXIT_SUCCESS to the level before; an earlier stage
\* creates its pipe, forks, closes the write end and fd_in, and recurses.
exec_commands_pg ==
    /\ pc = "exec_commands_pg"
    /\ LET command == commands.cmds[cmd_index + 1]
           new     == Len(procs) + 1
           p       == pipe(fds, npipes + 1)
           R       == p.pipefd[PIPE_READ_SIDE + 1]
           W       == p.pipefd[PIPE_WRITE_SIDE + 1]
           t1      == close(p.fds, W)
           t2      == IF fd_in # STDIN_FILENO THEN close(t1, fd_in) ELSE t1
       IN  IF cmd_index = commands.length - 1
           THEN /\ procs' = Spawn(cmd_index, command, "exec_commands", TRUE,
                                  FinalOps(fd_in), fds, npipes)
                /\ pid' = new
                /\ fds' = close(fds, fd_in)
                /\ heap' = FreeCommands(heap, 1, commands.length)
                /\ ret_val' = "EXIT_SUCCESS"
                /\ cmd_index' = cmd_index - 1
                /\ pc' = "unwind"
                /\ UNCHANGED <<npipes, fd_in>>
           ELSE /\ procs' = InnerChild(command, p)
                /\ pid' = new
                /\ npipes' = npipes + 1
                /\ fds' = t2
                /\ cmd_index' = cmd_index + 1
                /\ fd_in' = R
                /\ UNCHANGED <<pc, ret_val, heap>>
    /\ UNCHANGED <<parseVars, fg_process, maskVars, hpc, status, commands, cwd,
                   machine, cycle, clock, log>>

\* The level cmd_index of exec_commands after the call of the next level has
\* returned ret (part_003:366-372): waitpid(this_pid, &status, 0) waits for the
\* stage of this level; EXIT_FAILURE is returned if it did not exit with
\* success, else ret. The level 0 returns to exec(), which frees the stage
\* array (part_003:158).
unwind ==
    /\ pc = "unwind"
    /\ procs[this_pid(cmd_index)].state = "zombie"
    /\ procs' = Reap(this_pid(cmd_index), "exec_commands")
    /\ status' = procs[this_pid(cmd_index)].status
    /\ ret_val' = IF procs[this_pid(cmd_index)].status = "ok" THEN ret_val
                  ELSE "EXIT_FAILURE"
    /\ IF cmd_index = 0
       THEN /\ pc' = "coord_wait"
            /\ heap' = free(heap, CMDS)
            /\ UNCHANGED cmd_index
       ELSE /\ cmd_index' = cmd_index - 1
            /\ UNCHANGED <<pc, heap>>
    /\ UNCHANGED <<parseVars, jobVars, maskVars, hpc, commands, fd_in, fds, npipes,
                   cwd, machine, cycle, clock, log>>

\* exec() in the child (part_003:159-162):
\* while (-1 != waitpid(-getpgid(pid), NULL, 0)) { exit(EXIT_FAILURE); }
\* exit(ret). pid is what the last fork of exec_commands stored. A child that
\* waitpid returns ends the process with EXIT_FAILURE; with no child left the
\* process ends with ret.
coord_wait ==
    /\ pc = "coord_wait"
    /\ \/ \E p \in WaitSet(-getpgid(pid)) :
             /\ procs[p].state = "zombie"
             /\ procs' = Reap(p, "exec")
             /\ log' = [log EXCEPT !.exit = "EXIT_FAILURE"]
       \/ /\ WaitSet(-getpgid(pid)) = {}
          /\ log' = [log EXCEPT !.exit = ret_val]
          /\ UNCHANGED procs
    /\ pc' = "exited"
    /\ UNCHANGED <<parseVars, jobVars, maskVars, hpc, status, frameVars, kernelVars,
                   cycle, clock>>

NextCoord ==
    \/ exec_commands_pg
    \/ unwind
    \/ coord_wait
    \/ ChildStep

SpecCoord == InitCoord /\ [][NextCoord]_vars

\* ----------------------------------------------- what a line says, read directly
\* The reading of a line the claims are stated against: the fields between
\* delimiters by position, not by scanning as strtok_r does.

\* The positions of delim in s, with the two ends of s.
Cuts(s, delim) == {0, Len(s) + 1} \cup {i \in 1..Len(s) : s[i] = delim}

\* The (possibly empty) pieces of s between consecutive delimiters, in order.
Fields(s, delim) ==
    LET cuts == Cuts(s, delim)
        kth(k) == CHOOSE c \in cuts : Cardinality({x \in cuts : x < c}) = k
    IN  [k \in 1..(Cardinality(cuts) - 1) |-> SubSeq(s, kth(k - 1) + 1, kth(k) - 1)]

\* The space-separated tokens of one stage.
Words(s) == SelectSeq(Fields(s, SPACE), LAMBDA w : w # << >>)

\* The stages of a line, each the sequence of its tokens.
Stages(line) == LET f == Fields(line, PIPE) IN [k \in 1..Len(f) |-> Words(f[k])]

\* The line ends in a `&` token: the last token of the last stage.
TrailingAmp(line) ==
    LET st == Stages(line)
        last == st[Len(st)]
    IN  last # << >> /\ last[Len(last)] = <<AMP>>

\* The stages without the trailing `&`.
Body(line) ==
    LET st == Stages(line)
    IN  [k \in 1..Len(st) |->
            IF k = Len(st) /\ TrailingAmp(line) THEN SubSeq(st[k], 1, Len(st[k]) - 1) ELSE st[k]]

\* n >= 1 stages, each a non-empty list of tokens, `&` at most as the very last token.
WellFormed(line) ==
    \A k \in 1..Len(Body(line)) :
        /\ Body(line)[k] # << >>
        /\ \A j \in 1..Len(Body(line)[k]) : Body(line)[k][j] # <<AMP>>

\* The Pipeline a well-formed line denotes.
Expected(line) ==
    [null |-> FALSE, bg |-> TrailingAmp(line), length |-> Len(Body(line)),
     cmds |-> [k \in 1..Len(Body(line)) |->
                 [num_args |-> Len(Body(line)[k]), args |-> Body(line)[k]]]]

\* A token `&` that is not the last token of the last stage.
MisplacedAmp(line) ==
    LET st == Stages(line)
    IN  \E k \in 1..Len(st) : \E j \in 1..Len(st[k]) :
            st[k][j] = <<AMP>> /\ ~(k = Len(st) /\ j = Len(st[k]))

\* ------------------------------------------------------------ parser claims

\* C7: a line with a token `&` anywhere but last in the last stage makes
\* parse_commands fail and return no Pipeline (NULL).
C7_MisplacedAmpFails ==
    (parsed.done /\ MisplacedAmp(input)) => parsed.res.null

\* C8: a well-formed line of n stages parses to exactly those n stages in
\* order, each with its tokens in order, background exactly when the line ends
\* in `&`, and no `&` among the arguments.
C8_WellFormedParses ==
    (parsed.done /\ WellFormed(input)) => parsed.res = Expected(input)

\* C8's case: a two-stage background line with a two-token stage has been parsed.
C8_Witness ==
    /\ parsed.done
    /\ WellFormed(input)
    /\ parsed.res.length = 2
    /\ parsed.res.bg
    /\ \E k \in 1..2 : parsed.res.cmds[k].num_args = 1

\* C9: every Command of a returned Pipeline holds at least one token.
C9_CommandsNonEmpty ==
    (parsed.done /\ ~parsed.res.null) =>
        \A k \in 1..parsed.res.length : parsed.res.cmds[k].num_args >= 1

\* ------------------------------------------------------------- shell claims

\* The line of the current cycle was parsed to a Pipeline (not NULL).
LineParsed == cycle >= 1 /\ parsed.done /\ ~parsed.res.null

\* The children forked for the line of cycle c.
JobProcs(c) == {p \in Pids : procs[p].job = c}

Terminated(p) == procs[p].state \in {"zombie", "reaped"}

\* C1: after signal_handler has signalled the foreground job on SIGINT, waited
\* for it and unwound to the checkpoint, every process of that pipeline (every
\* stage) has terminated and the shell has not faulted.
C1_InterruptTerminatesJob ==
    log.unwound =>
        /\ \A p \in JobProcs(cycle) : Terminated(p)
        /\ pc # "crashed"

\* C2: every process signal_handler signals on SIGINT is a process of the
\* foreground pipeline of the current cycle, never one of a background
\* pipeline.
C2_InterruptOnlyForeground ==
    \A p \in log.killed :
        /\ procs[p].job = cycle
        /\ ~procs[p].bg

\* C3: when the shell blocks in readline after a pipeline that was not marked
\* background and was not interrupted, every process spawned for that pipeline
\* has terminated and been reaped.
C3_ForegroundReapedAtPrompt ==
    (pc = "readline" /\ LineParsed /\ parsed.res.length >= 1 /\ ~parsed.res.bg
        /\ ~log.interrupted)
    => \A p \in JobProcs(cycle) : procs[p].state = "reaped"

\* C4: the foreground wait is always issued on the pid of a process spawned by
\* the pipeline just executed: never -1, never a pid of an earlier cycle.
C4_WaitTargetsCurrentJob ==
    \A w \in log.waited :
        /\ w \in Pids
        /\ procs[w].job = cycle

\* C5: after a pipeline marked background the shell performs no blocking wait,
\* and a foreground wait is never left blocked on a running background process
\* once the processes of the foreground job itself are gone.
C5_BackgroundNeverBlocks ==
    /\ (pc = "wait" /\ LineParsed) => ~parsed.res.bg
    /\ (pc = "wait" /\ \A p \in JobProcs(cycle) : procs[p].state = "reaped")
       => ~\E p \in WaitSet(pid) : procs[p].bg /\ procs[p].state = "running"

\* C6: no pid is reported "done" twice, every reported pid belongs to a
\* pipeline launched in the background, and no background process is reaped by
\* the foreground wait or by the handler's wait (its report lost).
C6_DoneReportsBackgroundOnce ==
    /\ \A i \in 1..Len(log.reported) : procs[log.reported[i]].bg
    /\ \A i, j \in 1..Len(log.reported) : i # j => log.reported[i] # log.reported[j]
    /\ \A p \in Pids : procs[p].bg => procs[p].reapedBy \notin {"fgwait", "handler"}

\* C10: in a cycle whose line parses to zero stages the shell spawns nothing,
\* does not enter the foreground wait, prints neither an elapsed time nor an
\* error, and leaves pid and fg_process as they were.
C10_ZeroStagesSkipped ==
    (LineParsed /\ parsed.res.length = 0) =>
        /\ JobProcs(cycle) = {}
        /\ pc \notin {"wait", "time"}
        /\ log.waited = {}
        /\ log.timed = 0
        /\ log.errors = 0
        /\ pid = log.atRead.pid
        /\ fg_process = log.atRead.fg

\* ------------------------------------------------------ executor claims

\* The child has tried to replace its image: it runs a program, or its exec
\* failed.
Execd(p) == procs[p].image # << >> \/ procs[p].execFailed

\* C11: once exec_cmd has run for a line of one stage the shell has not
\* faulted; if token 0 names a builtin, exec_cmd forked no child; else it
\* forked exactly one child, which has the stage's arguments and, once it runs
\* a program, runs the one token 0 names, and the shell has not waited on
\* returning from exec_cmd. Once exec_commands has run a line of several
\* stages every stage, whatever its name, has a child with its arguments.
C11_ExecCmdDispatch ==
    /\ (LineParsed /\ parsed.res.length = 1 /\ pc # "exec_cmd") =>
          LET command == parsed.res.cmds[1]
              mine    == {p \in JobProcs(cycle) : procs[p].via = "exec_cmd"}
          IN  /\ pc # "crashed"
              /\ IsBuiltin(command) => mine = {}
              /\ ~IsBuiltin(command) =>
                    /\ JobProcs(cycle) = mine
                    /\ Cardinality(mine) = 1
                    /\ \A p \in mine :
                          /\ procs[p].argv = command.args
                          /\ procs[p].image # << >> => procs[p].image = command.args[1]
                    /\ pc = "next" => log.waited = {}
    /\ (LineParsed /\ parsed.res.length >= 2 /\ ret_val = "EXIT_SUCCESS") =>
          \A k \in 1..parsed.res.length :
              \E p \in JobProcs(cycle) :
                  /\ procs[p].stage = k - 1
                  /\ procs[p].argv = parsed.res.cmds[k].args

\* exec_commands has returned success for the list of n >= 2 stages of this
\* cycle.
Piped == LineParsed /\ commands.length >= 2 /\ ret_val = "EXIT_SUCCESS"

\* The forks and pipes of a list of n >= 2 stages once exec_commands has
\* returned.
ForksAndPipes ==
    Piped =>
        LET n == commands.length
            J == JobProcs(cycle)
        IN  /\ Cardinality(J) = n
            /\ {procs[p].stage : p \in J} = 0..(n - 1)
            /\ \A p, q \in J : p < q <=> procs[p].stage < procs[q].stage
            /\ npipes = log.atRead.npipes + n - 1
            /\ \A p \in J :
                  procs[p].npipes = log.atRead.npipes
                                      + (IF procs[p].last THEN n - 1 ELSE procs[p].stage + 1)
            /\ cmd_index = n - 1

\* C12: with no failing system call, exec_commands once entered returns, and
\* when it has run a list of n >= 2 stages it has forked exactly n children, in
\* stage order, and created exactly n - 1 pipes, pipe i before the fork of
\* stage i; the deepest level of the recursion is level n - 1 (depth n).
C12_ForksAndPipesInOrder ==
    /\ []ForksAndPipes
    /\ (pc = "exec_commands" ~> Piped)

C12_Witness == Piped /\ commands.length = 3

\* C13: a child of exec_commands that has tried to replace its image has, as
\* standard input, the terminal for stage 0 and the read end of the pipe of the
\* stage before otherwise; as standard output, the terminal for the last stage
\* and the write end of its own pipe otherwise; and no other descriptor of it is
\* an end of a pipe of its pipeline.
C13_PipeWiring ==
    \A p \in Pids :
        (procs[p].via = "exec_commands" /\ Execd(p)) =>
            LET proc == procs[p]
                i    == proc.stage
            IN  /\ proc.fds[STDIN_FILENO + 1] =
                      (IF i = 0 THEN TTY ELSE PipeEnd(proc.pipe0 + i, "r"))
                /\ proc.fds[STDOUT_FILENO + 1] =
                      (IF proc.last THEN TTY ELSE PipeEnd(proc.pipe0 + i + 1, "w"))
                /\ \A fd \in PipeFds(proc.fds) \ {STDIN_FILENO, STDOUT_FILENO} :
                      proc.fds[fd + 1].pipe <= proc.pipe0

\* A middle stage (both ends piped) and a last stage have exec'd.
C13_Witness ==
    \E p, q \in Pids :
        /\ procs[p].via = "exec_commands" /\ Execd(p)
        /\ procs[p].stage = 1 /\ ~procs[p].last
        /\ procs[q].via = "exec_commands" /\ Execd(q) /\ procs[q].last

\* The processes that hold the end `side` of pipe k open: the shell, and the
\* children that have not terminated.
Holders(k, side) ==
    (IF \E fd \in PipeFds(fds) : fds[fd + 1] = PipeEnd(k, side) THEN {0} ELSE {})
    \cup {p \in Pids : /\ procs[p].state \notin {"zombie", "reaped"}
                       /\ \E fd \in PipeFds(procs[p].fds) :
                             procs[p].fds[fd + 1] = PipeEnd(k, side)}

\* The child whose standard output is to be the write end of pipe k.
Producer(k) == {p \in Pids : ~procs[p].last /\ procs[p].via = "exec_commands"
                             /\ procs[p].pipe0 + procs[p].stage + 1 = k}

\* C14: with no failing system call, between two levels of exec_commands the
\* shell holds of all pipes only the read end of the pipe just created (the
\* next stage's fd_in); outside exec_commands it holds no end of any pipe; and
\* once the producer of a pipe has terminated no process holds the pipe's write
\* end.
C14_ParentClosesPipeEnds ==
    /\ pc = "exec_commands" =>
          IF cmd_index = 0 THEN PipeFds(fds) = {}
          ELSE /\ PipeFds(fds) = {fd_in}
               /\ fds[fd_in + 1] = PipeEnd(log.atRead.npipes + cmd_index, "r")
    /\ pc # "exec_commands" => PipeFds(fds) = {}
    /\ \A k \in 1..npipes :
          (\A p \in Producer(k) : Terminated(p)) => Holders(k, "w") = {}

\* exec_commands returned success, and the producer of a pipe has terminated
\* while its consumer still runs.
C14_Witness ==
    /\ Piped
    /\ \E k \in 1..npipes :
          /\ Producer(k) # {}
          /\ \A p \in Producer(k) : Terminated(p)
          /\ Holders(k, "r") # {}

\* C15: the shell process ends only by exit_cmd or by the return of main on a
\* failed sigaction at startup.
C15_EndsOnlyByExit ==
    pc \in {"exited", "returned", "crashed"} =>
        \/ pc = "exited"
        \/ pc = "returned" /\ cycle = 0

\* A single foreground command whose program is not found has been forked and
\* exec_cmd has returned.
ExecWillFail ==
    /\ LineParsed /\ parsed.res.length = 1 /\ ~parsed.res.bg
    /\ pc = "next" /\ ret_val = "EXIT_SUCCESS"
    /\ parsed.res.cmds[1].num_args > 0
    /\ ~IsBuiltin(parsed.res.cmds[1])
    /\ parsed.res.cmds[1].args[1] \in Missing

\* C16: a child whose exec failed has terminated with failure status, still in
\* the image it was forked with and never back in the code of the shell; and
\* the shell that forked a foreground command whose program is not found
\* reaches the next prompt.
C16_ExecFailureIsLocal ==
    /\ [](\A p \in Pids :
             procs[p].execFailed =>
                 /\ Terminated(p)
                 /\ procs[p].status = "fail"
                 /\ procs[p].image = << >>)
    /\ (ExecWillFail ~> pc = "readline")

C16_Witness ==
    /\ pc = "readline"
    /\ \E p \in JobProcs(cycle) :
          /\ procs[p].via = "exec_cmd"
          /\ procs[p].execFailed
          /\ procs[p].argv = <<X_S>>

\* C17: when pipe() or fork() failed in the shell while exec_commands set up
\* stage i, failure was returned, the children of this line are exactly those of
\* stages 0..i-1, one each, and none of them has been sent a signal.
C17_SetupFailureStops ==
    (LineParsed /\ log.failed \in {"pipe", "fork"} /\ commands.length >= 2
        /\ pc \notin {"exit_wait", "exited"})
    => /\ ret_val = "EXIT_FAILURE"
       /\ {procs[p].stage : p \in JobProcs(cycle)} = 0..(cmd_index - 1)
       /\ Cardinality(JobProcs(cycle)) = cmd_index
       /\ \A p \in JobProcs(cycle) :
             procs[p].state # "dying" /\ procs[p].status # "signaled"

\* fork() failed for stage 1 and the child of stage 0 runs its program.
C17_Witness ==
    /\ LineParsed /\ log.failed = "fork" /\ commands.length >= 2
    /\ cmd_index = 1
    /\ \E p \in JobProcs(cycle) : procs[p].state = "running"

\* C18: when the shell blocks in readline after a line that was not interrupted
\* and whose foreground wait was entered, exactly one elapsed time was printed
\* in the cycle; after a background line none was.
C18_ElapsedTimeReported ==
    (pc = "readline" /\ LineParsed /\ parsed.res.length >= 1 /\ ~log.interrupted) =>
        IF parsed.res.bg THEN log.timed = 0
        ELSE log.waited # {} => log.timed = 1

\* The elapsed whole milliseconds between two timestamps.
TrueMs(before, after) ==
    (1000000 * (after.tv_sec - before.tv_sec) + (after.tv_usec - before.tv_usec)) \div 1000

\* Timestamp a is not earlier than b.
NotEarlier(a, b) ==
    a.tv_sec > b.tv_sec \/ (a.tv_sec = b.tv_sec /\ a.tv_usec >= b.tv_usec)

\* C19: for after not earlier than before, the elapsed time computed is not
\* negative, so the cast to uint64_t keeps it, and it is the true number of
\* elapsed whole milliseconds or one more.
C19_ElapsedNonNegative ==
    (clock.time_taken.set /\ NotEarlier(clock.after, clock.before)) =>
        LET v == clock.time_taken.value
            t == TrueMs(clock.before, clock.after)
        IN  /\ ~clock.time_taken.wrapped
            /\ v >= 0
            /\ v - t \in {-1, 0, 1}

\* The microseconds went down across a second and the value computed is one
\* more than the true milliseconds.
C19_Witness ==
    /\ clock.time_taken.set
    /\ clock.after.tv_sec > clock.before.tv_sec
    /\ clock.after.tv_usec < clock.before.tv_usec
    /\ clock.time_taken.value = TrueMs(clock.before, clock.after) + 1

\* C20: a SIGINT delivered while the shell blocks in readline makes the handler
\* unwind to the checkpoint without signalling any process.
C20_IdleInterruptUnwinds ==
    [][(SigInt /\ pc = "readline") =>
          /\ pc' = "reap"
          /\ log'.interrupted
          /\ log'.killed = log.killed
          /\ procs' = procs]_vars

\* ------------------------------------------------------ builtin claims

\* C21: exit_cmd's kill(0, SIGTERM) leaves no child unsignalled; once in
\* exit_cmd the shell stays in it until it exits (it never returns to the main
\* loop); and when it has exited with success no child remains unreaped.
C21_ExitCmdTerminates ==
    /\ [](pc = "exited" => Unreaped = {})
    /\ [][/\ ExitCmd => \A p \in Pids : procs'[p].state \notin Live
          /\ pc \in {"exit_cmd", "exit_wait"} =>
                pc' \in {"exit_cmd", "exit_wait", "exited"}]_vars

\* The shell owns a foreground process-group job: the process running a
\* pipeline of several stages launched in the foreground by the line of this
\* cycle has not been reaped.
OwnsGroupJob ==
    /\ fg_process
    /\ \E p \in JobProcs(cycle) \cap Unreaped : procs[p].via = "exec" /\ ~procs[p].bg

\* C22: a SIGTERM handled by the shell is ignored (the shell goes back to the
\* prompt) exactly when it owns a foreground process-group job, and terminates
\* the shell in every other state.
C22_SigTermOnlyWithGroupJob ==
    [][SigTerm => /\ OwnsGroupJob <=> pc' = "reap"
                  /\ ~OwnsGroupJob <=> pc' = "exited"]_vars

\* The line of this cycle is a cd command that exec_cmd has run.
CdRan ==
    /\ LineParsed /\ parsed.res.length = 1
    /\ parsed.res.cmds[1].num_args > 0
    /\ parsed.res.cmds[1].args[1] = CD_S
    /\ pc # "exec_cmd"

\* The directory a cd command with at most one argument asks for.
CdTarget(args) ==
    IF Len(args) = 1 THEN HOME
    ELSE IF args[2][1] = TILDE THEN HOME \o SubSeq(args[2], 2, Len(args[2]))
    ELSE args[2]

\* C23: after cd with no argument the working directory is HOME; with one
\* argument it is the argument, HOME standing for a leading `~`; when that
\* directory cannot be entered, and with two or more arguments, the working
\* directory is as before and an error was printed; in every case the shell goes
\* on without a foreground wait and without an elapsed time.
C23_CdChangesDirectory ==
    CdRan =>
        LET args == parsed.res.cmds[1].args
            old  == log.atRead.cwd
        IN  /\ IF Len(args) > 2
               THEN cwd = old /\ log.failed = "usage" /\ log.errors = 1
               ELSE IF Resolve(old, CdTarget(args)) \in Dirs
               THEN cwd = Resolve(old, CdTarget(args)) /\ log.errors = 0
               ELSE cwd = old /\ log.failed = "chdir" /\ log.errors = 1
            /\ pc \in {"next", "fgcheck", "reap", "readline"}
            /\ ~fg_process
            /\ log.waited = {} /\ log.timed = 0

\* `cd ~/d` typed outside /h/d has moved the shell there.
C23_Witness ==
    /\ CdRan
    /\ pc = "readline"
    /\ input = CD_S \o <<SPACE, TILDE, SLASH, "d">>
    /\ cwd = HOME \o <<SLASH, "d">>
    /\ log.atRead.cwd # cwd

\* The line of this cycle is a checkEnv command that exec_cmd has run.
CheckEnvRan ==
    /\ LineParsed /\ parsed.res.length = 1
    /\ parsed.res.cmds[1].num_args > 0
    /\ parsed.res.cmds[1].args[1] = CHECKENV_S
    /\ pc # "exec_cmd"

\* The argument lists of the stages checkEnv is to run for the arguments user.
EnvPipeline(user) ==
    IF user = << >>
    THEN << <<printenv_s>>, <<sort_s>>, <<pager_s>> >>
    ELSE << <<printenv_s>>, <<grep_s>> \o user, <<sort_s>>, <<pager_s>> >>

\* C24: the list checkEnv_cmd builds is printenv | sort | pager without
\* arguments and printenv | grep a1 .. ak | sort | pager with arguments a1..ak,
\* every argument array ending right after its last argument, and that list is
\* the one exec_commands runs from stage 0: each child forked has the arguments
\* of its stage of the list.
C24_CheckEnvPipeline ==
    CheckEnvRan =>
        LET user == Tail(parsed.res.cmds[1].args)
        IN  /\ commands.length = Len(EnvPipeline(user))
            /\ Len(commands.cmds) = commands.length
            /\ \A k \in 1..commands.length :
                  /\ commands.cmds[k].args = EnvPipeline(user)[k]
                  /\ commands.cmds[k].num_args = Len(commands.cmds[k].args)
            /\ \A p \in JobProcs(cycle) :
                  /\ procs[p].via = "exec_commands"
                  /\ procs[p].argv = EnvPipeline(user)[procs[p].stage + 1]
            /\ pc = "exec_commands" => Cardinality(JobProcs(cycle)) = cmd_index
            /\ pc # "exec_commands" => Cardinality(JobProcs(cycle)) = commands.length

\* checkEnv a b has been run: four stages, grep with both arguments.
C24_Witness ==
    /\ CheckEnvRan
    /\ pc = "next"
    /\ commands.length = 4
    /\ \E p \in JobProcs(cycle) : procs[p].argv = <<grep_s, <<"a">>, <<"b">>>>

\* The child is the final stage of exec_commands and its token 0 is `pager`.
PagerStage(p) ==
    /\ procs[p].via = "exec_commands" /\ procs[p].last
    /\ procs[p].argv[1] = pager_s

\* The programs the pager stage is to try: PAGER's if set, less, more.
PagerChain ==
    (IF machine.PAGER.set THEN <<machine.PAGER.value>> ELSE << >>) \o <<LESS_S, MORE_S>>

\* C25: a child that has tried to replace its image tried, for the final stage
\* called `pager`, the programs PAGER (if set), less, more in this order, each
\* only after the ones before it were not found, and runs the first one found
\* or, none found, has exited with failure; for any other stage, a stage called
\* `pager` included, it tried token 0 and nothing else.
C25_PagerFallback ==
    \A p \in Pids :
        (Execd(p) /\ procs[p].argv # << >>) =>
            LET chain == IF PagerStage(p) THEN PagerChain ELSE <<procs[p].argv[1]>>
                t     == procs[p].tried
                n     == Len(t)
            IN  /\ n >= 1 /\ n <= Len(chain)
                /\ t = SubSeq(chain, 1, n)
                /\ \A i \in 1..(n - 1) : t[i] \in Missing
                /\ IF t[n] \in Missing
                   THEN /\ n = Len(chain)
                        /\ procs[p].execFailed
                        /\ Terminated(p) /\ procs[p].status = "fail"
                   ELSE procs[p].image = t[n] /\ ~procs[p].execFailed

\* PAGER names a program that is not found, less is missing too, and the final
\* pager stage runs more.
C25_Witness ==
    \E p \in Pids :
        /\ PagerStage(p)
        /\ procs[p].tried = <<X_S, LESS_S, MORE_S>>
        /\ procs[p].image = MORE_S

\* The strings of seq with delim between each two.
RECURSIVE JoinWith(_, _)
JoinWith(seq, delim) ==
    IF seq = << >> THEN << >>
    ELSE IF Len(seq) = 1 THEN seq[1]
    ELSE seq[1] \o <<delim>> \o JoinWith(Tail(seq), delim)

\* A Pipeline written back as text: the tokens of a stage joined by single
\* spaces, the stages by `|`.
Serialize(res) ==
    JoinWith([k \in 1..res.length |-> JoinWith(res.cmds[k].args, SPACE)], PIPE)

\* C26: the Pipeline parse_commands returns for a line without `&`, written
\* back as text and parsed again, gives a Pipeline with the same number of
\* stages, the same arguments in every stage and the same background flag.
C26_RoundTrip ==
    (parsed.done /\ ~parsed.res.null /\ \A i \in 1..Len(input) : input[i] # AMP) =>
        LET again == parse_commands(Serialize(parsed.res))
        IN  /\ ~again.null
            /\ again.length = parsed.res.length
            /\ \A k \in 1..parsed.res.length :
                  again.cmds[k].args = parsed.res.cmds[k].args
            /\ again.bg = parsed.res.bg

\* ------------------------------------------------------ job state claims

\* C27: whenever the shell blocks in readline, fg_process is false.
C27_FgResetAtPrompt == pc = "readline" => ~fg_process

\* C28: every step of the main loop that writes fg_process or pid is taken with
\* SIGINT, the signal signal_handler handles, held: the hold is in force when
\* the write is done and still after it.
C28_JobStateWrittenHeld ==
    [][(fg_process' # fg_process \/ pid' # pid) => sigint_held']_vars

\* signal_handler(SIGINT) issues its kill(pid, SIGTERM) in this step.
HandlerKills == SigInt /\ fg_process /\ pid # -1

\* C29: every kill signal_handler issues targets a process that was forked for
\* the foreground line of the current cycle and has not been reaped.
C29_NoStaleKill ==
    [][HandlerKills => /\ pid \in Unreaped
                       /\ procs[pid].job = cycle
                       /\ ~procs[pid].bg]_vars

\* signal_handler unwinds with siglongjmp in this step: at once when it has no
\* job to signal, or after its wait for the job it signalled.
Unwinds == (SigInt /\ ~(fg_process /\ pid # -1)) \/ HandlerWait

\* C30: when signal_handler unwinds to prompt_mark the main loop is not between
\* parse_commands and the frees at `next` (it holds no CommandList), the shell
\* has no end of a pipe open, and the children forked for the line of the cycle
\* are none or one for every stage.
C30_UnwindLeavesNothing ==
    [][Unwinds =>
          /\ pc \notin {"exec_cmd", "exec_commands", "next"}
          /\ PipeFds(fds) = {}
          /\ LineParsed =>
                Cardinality(JobProcs(cycle)) \in {0, ForksNeeded(parsed.res)}]_vars

\* C32: once the main loop is back at the top of its cycle after a line that
\* parse_commands rejected, nothing the parse allocated is live and nothing was
\* freed twice.
C32_ParseErrorFreesAll ==
    (parsed.done /\ parsed.res.null /\ pc \in {"reap", "readline"})
        => heap = NoHeap

\* C33: the shell process hands no object to free() a second time.
C33_NoDoubleFree == heap.twice = {}

\* checkEnv has run to its end: exec_commands, checkEnv_cmd, exec_cmd and main
\* have each freed their part, and nothing is live.
C33_Witness ==
    /\ pc = "fgcheck"
    /\ CheckEnvRan
    /\ ret_val = "EXIT_SUCCESS"
    /\ heap = NoHeap

\* The Commands and argument arrays among the objects of the set.
CommandObjs(objs) == {o \in objs : o[1] \in {"cmd", "args", "env_cmd", "env_args"}}

\* C36: when exec_commands has returned failure to the shell because pipe() or
\* fork() failed, the shell has no end of a pipe open and no Command of the
\* pipeline is still allocated.
C36_CleanupOnSetupFailure ==
    (pc = "next" /\ ret_val = "EXIT_FAILURE" /\ log.failed \in {"pipe", "fork"})
        => /\ PipeFds(fds) = {}
           /\ CommandObjs(heap.live) = {}

\* C35: while the shell is blocked in readline it holds neither SIGINT nor
\* SIGCHLD.
C35_MasksBalanced == pc = "readline" => ~sigint_held /\ ~sigchld_held

\* C34: no child of the shell is in readline: the shell alone prints prompts
\* and reads lines.
C34_ChildrenNeverPrompt == \A p \in Pids : procs[p].at # "readline"

\* The children the shell has waited for.
Reaped == {p \in Pids : procs[p].state = "reaped"}

\* A foreground job is running: the child the shell waits for was forked for
\* the line of this cycle, in the foreground, and has not terminated.
ForegroundActive ==
    pid \in JobProcs(cycle) /\ ~procs[pid].bg /\ ~Terminated(pid)

\* C31: the handler of SIGCHLD reaps no child and prints no completion notice;
\* while a foreground job runs it also leaves the main loop where it is, and
\* while the shell is blocked in readline it unwinds to the checkpoint; no
\* child is reported twice, and none that the foreground wait collected.
C31_ChildTermination ==
    /\ [][SigChld =>
             /\ {p \in Pids : procs'[p].state = "reaped"} = Reaped
             /\ log'.reported = log.reported
             /\ (ForegroundActive /\ hpc = "none") => (pc' = pc /\ UNCHANGED maskVars)
             /\ pc = "readline" => (pc' = "reap" /\ log'.interrupted)]_vars
    /\ [](\A i, j \in 1..Len(log.reported) :
             /\ (i # j => log.reported[i] # log.reported[j])
             /\ procs[log.reported[i]].reapedBy = "prompt")

\* C37: the process that runs a pipeline has exited with success exactly when
\* every stage exited with success, and when it has exited every stage has
\* terminated.
C37_CoordinatorStatus ==
    pc = "exited" =>
        /\ (log.exit = "EXIT_SUCCESS")
               <=> (\A p \in JobProcs(cycle) : procs[p].status = "ok")
        /\ Cardinality(JobProcs(cycle)) = commands.length
        /\ \A p \in JobProcs(cycle) : Terminated(p)

====
